---------------------------- MODULE Spec2Model ----------------------------
(***************************************************************************)
(* A model of unwind, a disassembler and partial decompiler for compiled   *)
(* Python modules (pyc files).                                             *)
(*                                                                         *)
(*   SpecMarshal  disasm.disassemble: the header, the recursive            *)
(*                unmarshal_node with its string table, and the bytecode   *)
(*                loop that ends the code-object branch.                   *)
(*   SpecValues   the same on a stream that holds no code object.          *)
(*   SpecDecode   the bytecode loop of unmarshal_node alone, started on a  *)
(*                code object whose fields have been read.                 *)
(*   SpecBlocks   passes.ComputeBasicBlocks.create_basic_blocks.           *)
(*   SpecDom      passes.ComputeBasicBlocks.compute_dominators.            *)
(*   SpecLift     passes.StackBasedOpcodeRemover over a list of opcodes.   *)
(*                                                                         *)
(* The file read by the disassembler is an input: the model fixes the      *)
(* value of a byte at the step at which the code first examines it, and a  *)
(* read may find the stream ended.  Unmarshalled values are kept as what   *)
(* the later code inspects: their Python type, their length, whether they  *)
(* can be hashed, and, for strings, their bytes.                           *)
(***************************************************************************)
EXTENDS Integers, Sequences, FiniteSets, TLC

\* ------------------------------------------------------------------ bounds
\* Largest magic number a header is drawn from (0..MaxMagic).
MaxMagic == 4
\* Largest count read in front of a collection (counts are drawn from -1..MaxCount).
MaxCount == 3
\* Largest length of a string read from the stream.
MaxStr == 1
\* Largest number of entries the string table is let grow to.
MaxTable == 2
\* Deepest nesting of values inside collections and code objects.
MaxDepth == 1
\* Largest bytecode length of a code object read from the stream.
MaxCode == 3
\* Largest bytecode length under SpecDecode.
MaxBytecode == 6
\* Largest length of co_consts, co_names and co_varnames under SpecDecode.
MaxNames == 1
\* Largest number of opcodes in a list given to create_basic_blocks.
MaxOps == 3
\* Largest argument of a jump in such a list.
MaxArg == 3
\* Largest number of blocks in a graph given to compute_dominators.
MaxBlocks == 3
\* Largest number of Opcode nodes in a Block given to StackBasedOpcodeRemover.
MaxLift == 3
\* Largest count an opcode of such a Block carries.
MaxLiftArg == 3
\* The longest Block of assignments and returns the passes are given.
MaxInline == 3
\* The longest Block of prints and other statements the passes are given.
MaxPrints == 3
\* The longest Block of dictionary stores the passes are given.
MaxStores == 4
\* The most runs of stores a Block of the passes is put together from.
MaxRuns == 4
\* The longest branch of an If node.
MaxBranch == 2

\* ------------------------------------------------------------ type tags
TYPE_NULL == 48
TYPE_NONE == 78
TYPE_FALSE == 70
TYPE_TRUE == 84
TYPE_STOP_ITER == 83
TYPE_ELLIPSIS == 46
TYPE_INT == 105
TYPE_INT64 == 73
TYPE_FLOAT == 102
TYPE_BINARY_FLOAT == 103
TYPE_COMPLEX == 120
TYPE_BINARY_COMPLEX == 121
TYPE_LONG == 108
TYPE_STRING == 115
TYPE_INTERNED == 116
TYPE_STRING_REF == 82
TYPE_TUPLE == 40
TYPE_LIST == 91
TYPE_DICT == 123
TYPE_CODE == 99
TYPE_UNICODE == 117
TYPE_SET == 60
TYPE_FROZEN_SET == 62

\* The tags the module declares (disasm.py, "Indicates the type of object to
\* unmarshal").
DeclaredTags ==
    { TYPE_NULL, TYPE_NONE, TYPE_FALSE, TYPE_TRUE, TYPE_STOP_ITER, TYPE_ELLIPSIS,
      TYPE_INT, TYPE_INT64, TYPE_FLOAT, TYPE_BINARY_FLOAT, TYPE_COMPLEX,
      TYPE_BINARY_COMPLEX, TYPE_LONG, TYPE_STRING, TYPE_INTERNED,
      TYPE_STRING_REF, TYPE_TUPLE, TYPE_LIST, TYPE_DICT, TYPE_CODE,
      TYPE_UNICODE, TYPE_SET, TYPE_FROZEN_SET }

\* The tag bytes a stream is drawn from: the declared tags and a byte that
\* is none of them ('?').
TagInputs == DeclaredTags \cup { 63 }

\* --------------------------------------------------------- opcode table
\* op.py builds its tables from pickled data that is not part of the sources;
\* the model keeps two revisions, sorted by magic as _revisions is.
Revisions ==
    << [magic |-> 1, python_version |-> "2.7", has_kwonlyargcount |-> FALSE,
        opcode_to_name |-> [b \in {1, 83, 100, 101, 113, 124, 143} |->
            CASE b = 1 -> "POP_TOP" [] b = 83 -> "RETURN_VALUE"
              [] b = 100 -> "LOAD_CONST" [] b = 101 -> "LOAD_NAME"
              [] b = 113 -> "JUMP_ABSOLUTE" [] b = 124 -> "LOAD_FAST"
              [] b = 143 -> "EXTENDED_ARG"]],
       [magic |-> 3, python_version |-> "3.1", has_kwonlyargcount |-> TRUE,
        opcode_to_name |-> [b \in {1, 83, 100, 101, 113, 124, 144} |->
            CASE b = 1 -> "POP_TOP" [] b = 83 -> "RETURN_VALUE"
              [] b = 100 -> "LOAD_CONST" [] b = 101 -> "LOAD_NAME"
              [] b = 113 -> "JUMP_ABSOLUTE" [] b = 124 -> "LOAD_FAST"
              [] b = 144 -> "EXTENDED_ARG"]] >>

\* The names whose byte is >= HAVE_ARGUMENT in the revisions above.
HasArgumentNames ==
    {"LOAD_CONST", "LOAD_NAME", "JUMP_ABSOLUTE", "LOAD_FAST", "EXTENDED_ARG"}

\* The magics of the revisions.
KnownMagics == { Revisions[r].magic : r \in 1..Len(Revisions) }

\* No opcode, no version, no value: Python's None.
None == "None"

\* _magic_to_revision taking only a revision whose magic is the given one.
magic_to_revision_exact(m) ==
    LET at == { r \in 1..Len(Revisions) : Revisions[r].magic = m }
    IN  IF at = {} THEN 0
        ELSE CHOOSE r \in at : \A q \in at : r <= q

\* _magic_to_revision: the place in Revisions of the first revision, in magic
\* order, whose magic is >= the given one; 0 (None) when there is none.
magic_to_revision(m) ==
    LET at == { r \in 1..Len(Revisions) : Revisions[r].magic >= m }
    IN  IF at = {} THEN 0
        ELSE CHOOSE r \in at : \A q \in at : r <= q

has_argument(opcode) == opcode \in HasArgumentNames

has_kwonlyargcount(m) ==
    LET revision == magic_to_revision(m)
    IN  revision # 0 /\ Revisions[revision].has_kwonlyargcount

from_bytecode(bytecode, m) ==
    LET revision == magic_to_revision(m)
    IN  IF revision # 0 /\ bytecode \in DOMAIN Revisions[revision].opcode_to_name
        THEN Revisions[revision].opcode_to_name[bytecode]
        ELSE None

python_version_from_magic(m) ==
    LET revision == magic_to_revision(m)
    IN  IF revision # 0 THEN Revisions[revision].python_version ELSE None

\* ------------------------------------------------------------- helpers
\* All sequences over S of length n, and of length at most n.
RECURSIVE SeqsOfLen(_, _)
SeqsOfLen(S, n) ==
    IF n = 0 THEN {<<>>}
    ELSE { Append(q, x) : q \in SeqsOfLen(S, n - 1), x \in S }

SeqsUpTo(S, n) == UNION { SeqsOfLen(S, k) : k \in 0..n }

\* Python's | on non-negative integers.
RECURSIVE BitOr(_, _)
BitOr(a, b) ==
    IF a = 0 THEN b
    ELSE IF b = 0 THEN a
    ELSE 2 * BitOr(a \div 2, b \div 2) + (IF a % 2 = 1 \/ b % 2 = 1 THEN 1 ELSE 0)

Last(q) == q[Len(q)]
Front(q) == SubSeq(q, 1, Len(q) - 1)

\* ------------------------------------------------------------- the state
VARIABLES
    \* disasm._Disassembler
    pc,            \* where disassemble() is
    magic,         \* self.magic
    eof,           \* the file is at its end: a read returns no byte
    string_table,  \* self.string_table
    frames,        \* the calls of unmarshal_collection and of the code-object branch in progress
    ret,           \* the value unmarshal_node has just returned
    last_tag,      \* the type tag of the value in ret
    index,         \* the index read by the last string reference
    outcome,       \* what disassemble() ended with
    \* the bytecode loop of the code-object branch
    co_code,       \* the bytes of co.co_code examined so far
    i,             \* the loop's cursor
    argument,      \* the argument accumulator
    opcodes,       \* co.opcodes
    \* passes.ComputeBasicBlocks
    nodes,         \* the Opcode nodes of the Block a pass is given (node.nodes)
    jump_targets,  \* create_basic_blocks: jump_targets
    bb_list,       \* create_basic_blocks: bb_list; compute_dominators: blocks
    cursor,        \* how many elements the running for loop has gone through
    prev,          \* compute_dominators: the prev attribute of each block
    dominators,    \* compute_dominators: the dominators attribute of each block
    changed,       \* compute_dominators: changed
    todo,          \* compute_dominators: the pending blocks the running sweep has not visited
    \* passes.StackBasedOpcodeRemover and its Context
    stack,         \* self.stack
    next_id,       \* self.next_id
    global_vars,   \* context.global_vars
    local_vars,    \* context.local_vars
    generated_vars, \* context.generated_vars
    new_n,         \* visit_Block: what visit_Opcode returned for the last node
    block,         \* visit_Block: block.nodes
    \* passes.Context.decompile
    tree           \* node: the Block the passes hand on to one another (None before the lifting)

disData == << magic, eof, string_table, frames, ret, last_tag, index >>
disVars == << pc, magic, eof, string_table, frames, ret, last_tag, index, outcome >>
loopVars == << co_code, i, argument, opcodes >>
blockVars == << nodes, jump_targets, bb_list, cursor >>
domVars == << prev, dominators, changed, todo >>
liftVars == << stack, next_id, global_vars, local_vars, generated_vars, new_n, block, tree >>
passVars == << blockVars, domVars, liftVars >>

vars == << disVars, loopVars, passVars >>

\* ------------------------------------------------- values and outcomes
\* An unmarshalled value: its Python type k, its len() n, whether hash() takes
\* it, and the bytes of a string.
Val(k, n, h, s) == [k |-> k, n |-> n, h |-> h, s |-> s]

Scalar(k) == Val(k, 0, TRUE, <<>>)

\* len() is defined on it; v[k] is defined on it.
Sized(v) == v.k \in {"str", "unicode", "tuple", "list", "set", "frozenset"}
Subscriptable(v) == v.k \in {"str", "unicode", "tuple", "list"}

\* What the bytecode loop uses of co_consts, co_names and co_varnames.
Table(v) == [sized |-> Sized(v), len |-> v.n, getitem |-> Subscriptable(v)]

NoOutcome == [returns |-> None, raises |-> None, msg |-> ""]
Returned(what) == [returns |-> what, raises |-> None, msg |-> ""]
Raised(exc, msg) == [returns |-> None, raises |-> exc, msg |-> msg]

\* The bytes strings are drawn from: 's' and 't' strings are ASCII, a 'u'
\* string may hold a byte that is not UTF-8.
StrBytes == {97}
Utf8Bytes == {97, 255}
\* The bytes bytecode is drawn from: opcode bytes (0 is STOP_CODE, which no
\* revision's opcode_to_name keeps) and the <<lo, hi>> bytes of an argument.
OpcodeBytes == {0, 1, 100, 101, 113, 124, 143, 144}
ArgBytes == { << 0, 0 >>, << 1, 2 >> }

\* The counts and indices read_int32 is drawn from.
Counts(max) == -1..max

\* raise exc(msg): disassemble() ends, nothing else changes.
Raise(exc, msg) ==
    /\ pc' = "done"
    /\ outcome' = Raised(exc, msg)
    /\ UNCHANGED << magic, eof, string_table, frames, ret, last_tag, index, loopVars, passVars >>

\* struct.unpack on fewer bytes than the format needs.
Truncated == Raise("struct.error", "unpack requires more bytes")

\* The caller has taken the returned value: ret, last_tag and index describe
\* nothing until the next return.
Consumed ==
    /\ ret' = None
    /\ last_tag' = 0
    /\ index' = 0

\* return v from unmarshal_node, for a value read under tag.
Return(tag, v) ==
    /\ pc' = "ret"
    /\ ret' = v
    /\ last_tag' = tag
    /\ UNCHANGED << magic, frames, index, outcome, loopVars, passVars >>

\* ------------------------------------------------------------- ast nodes
\* A node of unwind.ast is a record whose field `node` is its class; NoNode is
\* Python's None where a node may stand.
NoNode == [node |-> "None"]
Const(value) == [node |-> "Const", value |-> value]
Ident(name) == [node |-> "Ident", name |-> name]

\* ast.Opcode
AstOpcode(offset, size, o, arg) ==
    [node |-> "Opcode", offset |-> offset, size |-> size, op |-> o, arg |-> arg]

\* The elements of a list.
Range(q) == { q[k] : k \in DOMAIN q }

\* The state of the passes when none of them has run.
InitPasses ==
    /\ nodes = <<>>
    /\ jump_targets = {}
    /\ bb_list = <<>>
    /\ cursor = 0
    /\ prev = <<>>
    /\ dominators = <<>>
    /\ changed = FALSE
    /\ todo = {}
    /\ stack = <<>>
    /\ next_id = 0
    /\ global_vars = {}
    /\ local_vars = {}
    /\ generated_vars = {}
    /\ new_n = NoNode
    /\ block = <<>>
    /\ tree = NoNode

\* ----------------------------------------------------------- disassemble
\* _Disassembler.disassemble: the header and the magic.
disassemble ==
    /\ pc = "start"
    /\ \/ Truncated
       \/ \E m \in 0..MaxMagic :
            /\ magic' = m
            /\ string_table' = <<>>
            /\ IF python_version_from_magic(m) = None
               THEN /\ pc' = "done"
                    /\ outcome' = Raised("DisassemblerException", "Unknown magic header number")
               ELSE /\ pc' = "node"
                    /\ outcome' = outcome
            /\ UNCHANGED << eof, frames, ret, last_tag, index, loopVars, passVars >>

\* read_int8 for the type tag finds the stream ended.
UnmarshalTruncated ==
    /\ pc = "node"
    /\ Truncated

\* Global singletons.
UnmarshalSingleton ==
    /\ pc = "node" /\ ~eof
    /\ \E tag \in {TYPE_NONE, TYPE_TRUE, TYPE_FALSE} :
         /\ Return(tag, Scalar(IF tag = TYPE_NONE THEN "NoneType" ELSE "bool"))
         /\ UNCHANGED << eof, string_table >>

\* The Python type a collection tag builds.
CollectionType(tag) ==
    CASE tag = TYPE_TUPLE -> "tuple"
      [] tag = TYPE_LIST -> "list"
      [] tag = TYPE_SET -> "set"
      [] tag = TYPE_FROZEN_SET -> "frozenset"

\* type(nodes) for count nodes, all hashable or not: the values it may give;
\* the empty set when it raises TypeError (an unhashable member of a set).
Construct(tag, count, allHashable) ==
    CASE tag = TYPE_TUPLE -> { Val("tuple", count, allHashable, <<>>) }
      [] tag = TYPE_LIST -> { Val("list", count, FALSE, <<>>) }
      [] tag = TYPE_SET ->
           IF ~allHashable THEN {}
           ELSE { Val("set", n, FALSE, <<>>) : n \in (IF count = 0 THEN {0} ELSE 1..count) }
      [] tag = TYPE_FROZEN_SET ->
           IF ~allHashable THEN {}
           ELSE { Val("frozenset", n, TRUE, <<>>) : n \in (IF count = 0 THEN {0} ELSE 1..count) }

\* Collections: unmarshal_collection reads the count and then count nodes.
UnmarshalCollection ==
    /\ pc = "node" /\ ~eof
    /\ \E tag \in {TYPE_TUPLE, TYPE_LIST, TYPE_SET, TYPE_FROZEN_SET} :
         \/ Truncated
         \/ \E count \in Counts(IF Len(frames) < MaxDepth THEN MaxCount ELSE 0) :
              IF count <= 0
              THEN /\ \E v \in Construct(tag, 0, TRUE) : Return(tag, v)
                   /\ UNCHANGED << eof, string_table >>
              ELSE /\ frames' = Append(frames, [f |-> "coll", type |-> tag,
                                                count |-> count, left |-> count, h |-> TRUE])
                   /\ pc' = "node"
                   /\ UNCHANGED << magic, eof, string_table, ret, last_tag, index,
                                   outcome, loopVars, passVars >>

\* Numbers of a fixed width.
UnmarshalNumber ==
    /\ pc = "node" /\ ~eof
    /\ \E tag \in {TYPE_INT, TYPE_INT64, TYPE_BINARY_FLOAT, TYPE_BINARY_COMPLEX} :
         \/ Truncated
         \/ /\ Return(tag, Scalar(CASE tag = TYPE_BINARY_FLOAT -> "float"
                                    [] tag = TYPE_BINARY_COMPLEX -> "complex"
                                    [] OTHER -> "int"))
            /\ UNCHANGED << eof, string_table >>

\* TYPE_LONG: a digit count and that many 16-bit digits.
UnmarshalLong ==
    /\ pc = "node" /\ ~eof
    /\ \/ Truncated
       \/ /\ Return(TYPE_LONG, Scalar("int"))
          /\ UNCHANGED << eof, string_table >>

\* read_byte_array: the arrays a count may give, as <<data, at_eof>>; struct
\* raises when the stream holds fewer bytes than the count, or, for a count
\* below 0 (the format is empty and read() takes the rest), any byte at all.
read_byte_array(bytes, max) ==
    { << data, FALSE >> : data \in SeqsUpTo(bytes, max) } \cup { << <<>>, TRUE >> }

\* TYPE_STRING taken for TYPE_INTERNED: the string is appended to the table.
UnmarshalStringInterning ==
    /\ pc = "node" /\ ~eof
    /\ Len(string_table) < MaxTable
    /\ \E r \in read_byte_array(StrBytes, MaxStr) :
         /\ Return(TYPE_STRING, Val("str", Len(r[1]), TRUE, r[1]))
         /\ eof' = r[2]
         /\ string_table' = Append(string_table, r[1])

\* TYPE_STRING.
UnmarshalString ==
    /\ pc = "node" /\ ~eof
    /\ \/ Truncated
       \/ \E r \in read_byte_array(StrBytes, MaxStr) :
            /\ Return(TYPE_STRING, Val("str", Len(r[1]), TRUE, r[1]))
            /\ eof' = r[2]
            /\ UNCHANGED string_table

\* The characters bytes.decode('utf8') gives; None for bytes that are no UTF-8.
decode_utf8(data) ==
    IF \E k \in 1..Len(data) : data[k] > 127 THEN None ELSE data

\* TYPE_UNICODE: read_string_utf8 reads up to count bytes (a short read is no
\* error there; a count below 0 reads the rest) and decodes them.
UnmarshalUnicode ==
    /\ pc = "node" /\ ~eof
    /\ \/ Truncated
       \/ \E count \in Counts(MaxStr) :
          \E data \in SeqsUpTo(Utf8Bytes, MaxStr) :
            /\ count >= 0 => Len(data) <= count
            /\ IF decode_utf8(data) = None
               THEN Raise("UnicodeDecodeError", "invalid start byte")
               ELSE /\ Return(TYPE_UNICODE, Val("unicode", Len(data), TRUE, decode_utf8(data)))
                    /\ eof' = (count < 0 \/ Len(data) < count)
                    /\ UNCHANGED string_table

\* TYPE_INTERNED.
UnmarshalInterned ==
    /\ pc = "node" /\ ~eof
    /\ Len(string_table) < MaxTable
    /\ \/ Truncated
       \/ \E r \in read_byte_array(StrBytes, MaxStr) :
            /\ Return(TYPE_INTERNED, Val("str", Len(r[1]), TRUE, r[1]))
            /\ eof' = r[2]
            /\ string_table' = Append(string_table, r[1])

\* TYPE_STRING_REF.
UnmarshalStringRef ==
    /\ pc = "node" /\ ~eof
    /\ \/ Truncated
       \/ \E k \in Counts(MaxTable) :
            IF k < 0 \/ k >= Len(string_table)
            THEN /\ pc' = "done"
                 /\ outcome' = Raised("DisassemblerException", "String index is outside string table")
                 /\ index' = k
                 /\ UNCHANGED << magic, eof, string_table, frames, ret, last_tag, loopVars, passVars >>
            ELSE /\ pc' = "ret"
                 /\ ret' = Val("str", Len(string_table[k + 1]), TRUE, string_table[k + 1])
                 /\ last_tag' = TYPE_STRING_REF
                 /\ index' = k
                 /\ UNCHANGED << magic, eof, string_table, frames, outcome, loopVars, passVars >>

\* Code objects: the fields in front of the nodes, and the bytecode string.
UnmarshalCode ==
    /\ pc = "node" /\ ~eof
    /\ Len(frames) < MaxDepth
    /\ \/ Truncated
       \/ \E type \in {TYPE_STRING, TYPE_INTERNED} :
            IF type # TYPE_STRING
            THEN Raise("DisassemblerException", "Bytecode was not marshalled as a string")
            ELSE \E r \in { << n, FALSE >> : n \in 0..MaxCode } \cup { << 0, TRUE >> } :
                   /\ frames' = Append(frames,
                        [f |-> "code", field |-> "co_consts",
                         co_kwonlyargcount |-> IF has_kwonlyargcount(magic) THEN "read" ELSE 0,
                         len_co_code |-> r[1],
                         co_consts |-> Table(Scalar("NoneType")),
                         co_names |-> Table(Scalar("NoneType")),
                         co_varnames |-> Table(Scalar("NoneType"))])
                   /\ eof' = r[2]
                   /\ pc' = "node"
                   /\ UNCHANGED << magic, string_table, ret, last_tag, index, outcome, loopVars, passVars >>

\* The tags unmarshal_node has a branch for.
HandledTags ==
    { TYPE_NONE, TYPE_TRUE, TYPE_FALSE, TYPE_TUPLE, TYPE_LIST, TYPE_SET,
      TYPE_FROZEN_SET, TYPE_INT, TYPE_INT64, TYPE_BINARY_FLOAT,
      TYPE_BINARY_COMPLEX, TYPE_LONG, TYPE_STRING, TYPE_UNICODE, TYPE_INTERNED,
      TYPE_STRING_REF, TYPE_CODE }

\* The else branch: any other tag.
UnmarshalUnknown ==
    /\ pc = "node" /\ ~eof
    /\ \E tag \in TagInputs \ HandledTags :
         /\ pc' = "done"
         /\ outcome' = Raised("DisassemblerException", "Cannot unmarshal unknown type")
         /\ last_tag' = tag
         /\ UNCHANGED << magic, eof, string_table, frames, ret, index, loopVars, passVars >>

unmarshal_node ==
    \/ UnmarshalTruncated
    \/ UnmarshalSingleton
    \/ UnmarshalCollection
    \/ UnmarshalNumber
    \/ UnmarshalLong
    \/ UnmarshalString
    \/ UnmarshalUnicode
    \/ UnmarshalInterned
    \/ UnmarshalStringRef
    \/ UnmarshalCode
    \/ UnmarshalUnknown

\* unmarshal_collection gets a node back: the next node, or type(nodes).
ReturnToCollection ==
    /\ pc = "ret" /\ frames # <<>> /\ Last(frames).f = "coll"
    /\ LET top == Last(frames)
           h == top.h /\ ret.h
       IN  IF top.left > 1
           THEN /\ frames' = [frames EXCEPT ![Len(frames)] =
                                 [top EXCEPT !.left = top.left - 1, !.h = h]]
                /\ pc' = "node"
                /\ Consumed
                /\ UNCHANGED << magic, eof, string_table, outcome, loopVars, passVars >>
           ELSE IF Construct(top.type, top.count, h) = {}
           THEN Raise("TypeError", "unhashable type")
           ELSE \E v \in Construct(top.type, top.count, h) :
                  /\ frames' = Front(frames)
                  /\ pc' = "ret"
                  /\ ret' = v
                  /\ last_tag' = top.type
                  /\ index' = 0
                  /\ UNCHANGED << magic, eof, string_table, outcome, loopVars, passVars >>

\* The node fields of a code object in the order they are read; co_firstlineno
\* is read between co_name and co_lnotab.
CodeFields ==
    << "co_consts", "co_names", "co_varnames", "co_freevars", "co_cellvars",
       "co_filename", "co_name", "co_lnotab" >>

FieldNumber(name) == CHOOSE k \in 1..Len(CodeFields) : CodeFields[k] = name

\* The code-object branch gets a node back and goes on to the next field.
ReturnToCode ==
    /\ pc = "ret" /\ frames # <<>> /\ Last(frames).f = "code"
    /\ LET top == Last(frames)
           k == FieldNumber(top.field)
           kept == CASE top.field = "co_consts" -> [top EXCEPT !.co_consts = Table(ret)]
                     [] top.field = "co_names" -> [top EXCEPT !.co_names = Table(ret)]
                     [] top.field = "co_varnames" -> [top EXCEPT !.co_varnames = Table(ret)]
                     [] OTHER -> top
       IN  /\ frames' = [frames EXCEPT ![Len(frames)] =
                 [kept EXCEPT !.field = IF k < Len(CodeFields) THEN CodeFields[k + 1] ELSE "opcodes"]]
           /\ pc' = CASE top.field = "co_name" -> "firstlineno"
                      [] top.field = "co_lnotab" -> "decode"
                      [] OTHER -> "node"
           /\ IF top.field = "co_lnotab"
              THEN co_code' = <<>> /\ i' = 0 /\ argument' = 0 /\ opcodes' = <<>>
              ELSE UNCHANGED loopVars
           /\ Consumed
           /\ UNCHANGED << magic, eof, string_table, outcome, passVars >>

\* co.co_firstlineno = self.read_int32()
ReadFirstLineNo ==
    /\ pc = "firstlineno"
    /\ \/ Truncated
       \/ /\ ~eof
          /\ pc' = "node"
          /\ UNCHANGED << magic, eof, string_table, frames, ret, last_tag, index,
                          outcome, loopVars, passVars >>

\* disassemble() gets the top-level node back and returns the Module.
ReturnModule ==
    /\ pc = "ret" /\ frames = <<>>
    /\ pc' = "done"
    /\ outcome' = Returned("Module")
    /\ UNCHANGED << magic, eof, string_table, frames, ret, last_tag, index, loopVars, passVars >>

\* ------------------------------------------------------ the bytecode loop
\* The opcodes whose argument indexes co_names, and co_varnames.
NameOpcodes ==
    { "LOAD_NAME", "STORE_NAME", "DELETE_NAME", "LOAD_ATTR", "STORE_ATTR",
      "DELETE_ATTR", "LOAD_GLOBAL", "STORE_GLOBAL", "DELETE_GLOBAL",
      "IMPORT_NAME", "IMPORT_FROM" }
FastOpcodes == { "LOAD_FAST", "STORE_FAST", "DELETE_FAST" }

\* The argument bytes alone, what was accumulated being dropped.
accumulate_dropping(acc, lo, hi) == BitOr(lo, hi * 256)

\* argument |= (lo | (hi << 8))
accumulate(acc, lo, hi) == BitOr(acc, BitOr(lo, hi * 256))

\* A decoded argument: None, the raw integer, or entry `value` of a table.
Arg(from, value) == [from |-> from, value |-> value]
NoArg == Arg(None, 0)

\* table[k] after the check k >= len(table): what is raised, or the decoded
\* argument.
lookup(name, table, k) ==
    IF ~table.sized THEN [raises |-> "TypeError", arg |-> NoArg]
    ELSE IF k >= table.len THEN [raises |-> "DisassemblerException", arg |-> NoArg]
    ELSE IF ~table.getitem THEN [raises |-> "TypeError", arg |-> NoArg]
    ELSE [raises |-> None, arg |-> Arg(name, k)]

\* "Decode the opcode argument if present"
decode_argument(opcode, acc, co) ==
    IF ~has_argument(opcode) THEN [raises |-> None, arg |-> NoArg]
    ELSE IF opcode = "LOAD_CONST" THEN lookup("co_consts", co.co_consts, acc)
    ELSE IF opcode \in NameOpcodes THEN lookup("co_names", co.co_names, acc)
    ELSE IF opcode \in FastOpcodes THEN lookup("co_varnames", co.co_varnames, acc)
    ELSE [raises |-> None, arg |-> Arg("raw", acc)]

\* disasm.Opcode
Opcode(offset, size, opcode, arg) ==
    [offset |-> offset, size |-> size, opcode |-> opcode, argument |-> arg]

\* raise inside the loop, after the bytes `seen` were examined.
RaiseInLoop(exc, msg, seen) ==
    /\ pc' = "done"
    /\ outcome' = Raised(exc, msg)
    /\ co_code' = co_code \o seen
    /\ UNCHANGED << magic, eof, string_table, frames, ret, last_tag, index,
                    i, argument, opcodes, passVars >>

\* One iteration of "while i < len(co.co_code)".
DecodeOpcode ==
    /\ pc = "decode"
    /\ i < Last(frames).len_co_code
    /\ \E b \in OpcodeBytes :
         LET co == Last(frames)
             offset == i
             opcode == from_bytecode(b, magic)
             left == co.len_co_code - (i + 1)
         IN  IF opcode = None
             THEN RaiseInLoop("DisassemblerException", "Unknown bytecode", << b >>)
             ELSE IF has_argument(opcode) /\ left < 2
             THEN RaiseInLoop("ValueError", "need more than 1 value to unpack", << b >>)
             ELSE \E a \in (IF has_argument(opcode) THEN ArgBytes ELSE { <<>> }) :
                    LET acc == IF has_argument(opcode)
                               THEN accumulate(argument, a[1], a[2]) ELSE argument
                        next == IF has_argument(opcode) THEN i + 3 ELSE i + 1
                        d == decode_argument(opcode, acc, co)
                    IN  IF opcode = "EXTENDED_ARG"
                        THEN /\ acc < 32768  \* the shifted value stays an integer of TLC
                             /\ argument' = acc * 65536
                             /\ i' = next
                             /\ co_code' = co_code \o << b >> \o a
                             /\ UNCHANGED << disVars, opcodes, passVars >>
                        ELSE IF d.raises # None
                        THEN RaiseInLoop(d.raises,
                                 IF d.raises = "DisassemblerException"
                                 THEN "Invalid argument for opcode"
                                 ELSE "len() or [] of a value that has none",
                                 << b >> \o a)
                        ELSE /\ opcodes' = Append(opcodes,
                                     Opcode(offset, next - offset, opcode, d.arg))
                             /\ argument' = 0
                             /\ i' = next
                             /\ co_code' = co_code \o << b >> \o a
                             /\ UNCHANGED << disVars, passVars >>

\* The loop ends and the code-object branch returns co (the loop's variables
\* are locals of the call that ends here).
DecodeDone ==
    /\ pc = "decode"
    /\ i >= Last(frames).len_co_code
    /\ frames' = Front(frames)
    /\ pc' = "ret"
    /\ ret' = Scalar("CodeObject")
    /\ last_tag' = TYPE_CODE
    /\ co_code' = <<>> /\ i' = 0 /\ argument' = 0 /\ opcodes' = <<>>
    /\ UNCHANGED << magic, eof, string_table, index, outcome, passVars >>

\* ----------------------------------------------------- specifications
InitLoop ==
    /\ co_code = <<>>
    /\ i = 0
    /\ argument = 0
    /\ opcodes = <<>>

\* _Disassembler.__init__, and disassemble() about to read the header.
InitMarshal ==
    /\ pc = "start"
    /\ magic = -1  \* None: no header has been read
    /\ eof = FALSE
    /\ string_table = <<>>
    /\ frames = <<>>
    /\ ret = None
    /\ last_tag = 0
    /\ index = 0
    /\ outcome = NoOutcome
    /\ InitLoop
    /\ InitPasses

NextMarshal ==
    \/ disassemble
    \/ unmarshal_node
    \/ ReturnToCollection
    \/ ReturnToCode
    \/ ReadFirstLineNo
    \/ ReturnModule
    \/ DecodeOpcode
    \/ DecodeDone

SpecMarshal == InitMarshal /\ [][NextMarshal]_vars

\* disassemble() on a stream that holds no code object.
NextValues ==
    \/ disassemble
    \/ UnmarshalTruncated
    \/ UnmarshalSingleton
    \/ UnmarshalCollection
    \/ UnmarshalNumber
    \/ UnmarshalLong
    \/ UnmarshalString
    \/ UnmarshalUnicode
    \/ UnmarshalInterned
    \/ UnmarshalStringRef
    \/ UnmarshalUnknown
    \/ ReturnToCollection
    \/ ReturnModule

SpecValues == InitMarshal /\ [][NextValues]_vars

\* What co_consts, co_names and co_varnames may be when the loop starts.
Tables ==
    { Table(Scalar("NoneType")) }
        \cup { [sized |-> TRUE, len |-> n, getitem |-> g] : n \in 0..MaxNames, g \in BOOLEAN }

\* The code-object branch with every field read, about to decode a bytecode
\* of any length up to MaxBytecode.
InitDecode ==
    /\ pc = "decode"
    /\ magic \in KnownMagics
    /\ eof = FALSE
    /\ string_table = <<>>
    /\ \E n \in 0..MaxBytecode : \E c \in Tables, nm \in Tables, vn \in Tables :
         frames = << [f |-> "code", field |-> "opcodes",
                      co_kwonlyargcount |-> IF has_kwonlyargcount(magic) THEN "read" ELSE 0,
                      len_co_code |-> n,
                      co_consts |-> c, co_names |-> nm, co_varnames |-> vn] >>
    /\ ret = None
    /\ last_tag = 0
    /\ index = 0
    /\ outcome = NoOutcome
    /\ InitLoop
    /\ InitPasses

NextDecode ==
    \/ DecodeOpcode
    \/ DecodeDone

SpecDecode == InitDecode /\ [][NextDecode]_vars

\* ------------------------------------------- passes.ComputeBasicBlocks
absolute_jumping_opcodes ==
    { "POP_JUMP_IF_TRUE", "JUMP_IF_FALSE_OR_POP", "POP_JUMP_IF_FALSE",
      "JUMP_IF_TRUE_OR_POP", "JUMP_ABSOLUTE" }
relative_jumping_opcodes == { "JUMP_IF_FALSE", "JUMP_IF_TRUE", "JUMP_FORWARD" }
jumping_opcodes == absolute_jumping_opcodes \cup relative_jumping_opcodes
exiting_opcodes == { "RETURN_VALUE", "RETURN_NONE", "RAISE_EXCEPTION", "RAISE_VARARGS" }

\* get_targets with the fall-through in front of the jump target.
get_targets_fall_through_first(o) ==
    IF o.op \in jumping_opcodes
    THEN << o.offset + o.size,
            IF o.op \in relative_jumping_opcodes
            THEN o.arg.value + o.offset + o.size
            ELSE o.arg.value >>
    ELSE <<>>

\* ComputeBasicBlocks.get_targets
get_targets(o) ==
    IF o.op \in jumping_opcodes
    THEN << IF o.op \in relative_jumping_opcodes
            THEN o.arg.value + o.offset + o.size
            ELSE o.arg.value,
            o.offset + o.size >>
    ELSE <<>>

\* ast.BasicBlock; a block is referred to by its place in bb_list, 0 is None.
BasicBlock(start, ns, next, dominator) ==
    [start |-> start, nodes |-> ns, next |-> next, dominator |-> dominator]

\* start_to_bb as the second loop leaves it: a later block with the same
\* start replaces an earlier one.
start_to_bb(blocks) ==
    [ s \in { blocks[j].start : j \in DOMAIN blocks } |->
        CHOOSE j \in DOMAIN blocks :
            /\ blocks[j].start = s
            /\ \A q \in DOMAIN blocks : blocks[q].start = s => q <= j ]

\* A block is begun at every opcode.
begins_block_always(o, targets) == TRUE

\* "if o.offset in jump_targets"
begins_block(o, targets) == o.offset \in targets

\* raise exc(msg) out of a pass.
RaiseInPass(exc, msg) ==
    /\ pc' = "done"
    /\ outcome' = Raised(exc, msg)

\* create_basic_blocks, first loop: "Compute all jump targets, which mark the
\* beginning of basic blocks".
CollectJumpTargets ==
    /\ pc = "jump_targets"
    /\ IF cursor < Len(nodes)
       THEN LET o == nodes[cursor + 1]
                first == IF jump_targets = {} THEN { o.offset } ELSE {}
                exits == IF o.op \in exiting_opcodes THEN { o.offset + o.size } ELSE {}
            IN  /\ jump_targets' = first \cup jump_targets \cup Range(get_targets(o)) \cup exits
                /\ cursor' = cursor + 1
                /\ pc' = pc
       ELSE /\ pc' = "bb_list"
            /\ cursor' = 0
            /\ UNCHANGED jump_targets
    /\ UNCHANGED << disData, outcome, loopVars, nodes, bb_list, domVars, liftVars >>

\* create_basic_blocks, second loop: "Construct the basic blocks using the
\* jump targets".
ConstructBlocks ==
    /\ pc = "bb_list"
    /\ IF cursor < Len(nodes)
       THEN LET o == nodes[cursor + 1]
            IN  IF begins_block(o, jump_targets)
                THEN /\ bb_list' = Append(bb_list, BasicBlock(o.offset, << o >>, <<>>, 0))
                     /\ cursor' = cursor + 1
                     /\ UNCHANGED << pc, outcome >>
                ELSE IF bb_list = <<>>
                THEN /\ RaiseInPass("AttributeError", "'NoneType' object has no attribute 'nodes'")
                     /\ UNCHANGED << bb_list, cursor >>
                ELSE /\ bb_list' = [bb_list EXCEPT ![Len(bb_list)].nodes = Append(@, o)]
                     /\ cursor' = cursor + 1
                     /\ UNCHANGED << pc, outcome >>
       ELSE /\ pc' = "next"
            /\ cursor' = 0
            /\ UNCHANGED << bb_list, outcome >>
    /\ UNCHANGED << disData, loopVars, nodes, jump_targets, domVars, liftVars >>

\* create_basic_blocks, third loop: "Fill in the next field for all basic
\* blocks", and the return of bb_list.
FillNext ==
    /\ pc = "next"
    /\ IF cursor < Len(bb_list)
       THEN LET bb == bb_list[cursor + 1]
                last == bb.nodes[Len(bb.nodes)]
                starts == start_to_bb(bb_list)
                targets == get_targets(last)
                next == [ k \in DOMAIN targets |-> starts[targets[k]] ]
                after == last.offset + last.size
            IN  IF \E k \in DOMAIN targets : targets[k] \notin DOMAIN starts
                THEN /\ RaiseInPass("KeyError", "start_to_bb[s]")
                     /\ UNCHANGED << bb_list, cursor >>
                ELSE /\ bb_list' = [bb_list EXCEPT ![cursor + 1].next =
                          IF next = <<>> /\ last.op \notin exiting_opcodes
                             /\ after \in DOMAIN starts
                          THEN << starts[after] >>
                          ELSE next]
                     /\ cursor' = cursor + 1
                     /\ UNCHANGED << pc, outcome >>
       ELSE /\ pc' = "done"
            /\ outcome' = Returned("bb_list")
            /\ UNCHANGED << bb_list, cursor >>
    /\ UNCHANGED << disData, loopVars, nodes, jump_targets, domVars, liftVars >>

\* The disassembler at rest while a pass runs.
InitDisassembled ==
    /\ magic = -1
    /\ eof = FALSE
    /\ string_table = <<>>
    /\ frames = <<>>
    /\ ret = None
    /\ last_tag = 0
    /\ index = 0
    /\ outcome = NoOutcome
    /\ InitLoop

\* The opcodes lists of opcodes are drawn from: one without argument, one
\* that exits, and jumps of each kind.
BlockOps ==
    { "POP_TOP", "RETURN_VALUE", "JUMP_ABSOLUTE", "JUMP_FORWARD",
      "POP_JUMP_IF_FALSE", "JUMP_IF_TRUE" }

\* The Opcode nodes that may stand at an offset: a jump takes 3 bytes and
\* carries a Const, the others take 1 byte.
OpcodesAt(offset) ==
    { AstOpcode(offset, 3, o, Const(v)) : o \in BlockOps \cap jumping_opcodes, v \in 0..MaxArg }
        \cup { AstOpcode(offset, 1, o, NoNode) : o \in BlockOps \ jumping_opcodes }

\* Where the bytecode of a list of opcodes ends.
EndOf(q) == IF q = <<>> THEN 0 ELSE Last(q).offset + Last(q).size

\* The lists of n opcodes with contiguous offsets from 0.
RECURSIVE OpcodeLists(_)
OpcodeLists(n) ==
    IF n = 0 THEN { <<>> }
    ELSE UNION { { Append(q, o) : o \in OpcodesAt(EndOf(q)) } : q \in OpcodeLists(n - 1) }

\* create_basic_blocks called on a list of at most MaxOps opcodes.
InitBlocks ==
    /\ pc = "jump_targets"
    /\ InitDisassembled
    /\ nodes \in UNION { OpcodeLists(n) : n \in 0..MaxOps }
    /\ jump_targets = {}
    /\ bb_list = <<>>
    /\ cursor = 0
    /\ prev = <<>>
    /\ dominators = <<>>
    /\ changed = FALSE
    /\ todo = {}
    /\ stack = <<>>
    /\ next_id = 0
    /\ global_vars = {}
    /\ local_vars = {}
    /\ generated_vars = {}
    /\ new_n = NoNode
    /\ block = <<>>
    /\ tree = NoNode

NextBlocks ==
    \/ CollectJumpTargets
    \/ ConstructBlocks
    \/ FillNext

SpecBlocks == InitBlocks /\ [][NextBlocks]_vars

\* ------------------------- passes.ComputeBasicBlocks.compute_dominators
\* The entry block: visit_Block passes node.nodes[0] as start.
start == 1

\* pending with the entry block left in.
pending_with_start == DOMAIN bb_list

\* pending = set(blocks) - set([start])
pending == DOMAIN bb_list \ { start }

\* n.prev after "for b in blocks: for n in b.next: n.prev.append(b)", from
\* block b on.
RECURSIVE prev_of(_, _, _)
prev_of(blocks, n, b) ==
    IF b > Len(blocks) THEN <<>>
    ELSE [ k \in 1..Len(SelectSeq(blocks[b].next, LAMBDA x : x = n)) |-> b ]
             \o prev_of(blocks, n, b + 1)

\* The prev lists and the first dominators: start is dominated by itself,
\* every other block by all blocks.
SetUpDominators ==
    /\ pc = "prev"
    /\ prev' = [ n \in DOMAIN bb_list |-> prev_of(bb_list, n, 1) ]
    /\ dominators' = [ b \in DOMAIN bb_list |->
                          IF b = start THEN { start } ELSE DOMAIN bb_list ]
    /\ changed' = TRUE
    /\ pc' = "while"
    /\ UNCHANGED << disData, outcome, loopVars, blockVars, todo, liftVars >>

\* "while changed: changed = False", and the sweep over pending begins.
BeginSweep ==
    /\ pc = "while"
    /\ changed
    /\ changed' = FALSE
    /\ todo' = pending
    /\ pc' = IF pending = {} THEN "while" ELSE "for"
    /\ UNCHANGED << disData, outcome, loopVars, blockVars, prev, dominators, liftVars >>

\* The dominators of the last block of the list ps only.
intersect_last(all, ps, doms) == IF ps = <<>> THEN all ELSE all \cap doms[Last(ps)]

\* The dominators of every block in the list ps, within all.
RECURSIVE intersect(_, _, _)
intersect(all, ps, doms) ==
    IF ps = <<>> THEN all
    ELSE intersect(all \cap doms[Head(ps)], Tail(ps), doms)

\* One block of "for b in pending"; a set is gone through in any order.
Refine ==
    /\ pc = "for"
    /\ \E b \in todo :
         LET d == intersect(DOMAIN bb_list, prev[b], dominators) \cup { b }
         IN  /\ dominators' = [dominators EXCEPT ![b] = d]
             /\ changed' = (changed \/ d # dominators[b])
             /\ todo' = todo \ { b }
             /\ pc' = IF todo \ { b } = {} THEN "while" ELSE "for"
    /\ UNCHANGED << disData, outcome, loopVars, blockVars, prev, liftVars >>

\* target_set that keeps the block itself.
target_set_with_block(b, doms) == doms[b]

\* target_set = b.dominators - set([b])
target_set(b, doms) == doms[b] \ { b }

\* b.dominator: the one dominator of b whose dominators are target_set, or
\* None.
immediate_dominator(b, doms) ==
    LET immediate_dominators == { x \in doms[b] : doms[x] = target_set(b, doms) }
    IN  IF Cardinality(immediate_dominators) = 1
        THEN CHOOSE x \in immediate_dominators : TRUE
        ELSE 0

\* The loop has converged: "Compute the immediate dominators" and "Remove
\* temporary attributes"; visit_Block returns the Block.
ImmediateDominators ==
    /\ pc = "while"
    /\ ~changed
    /\ bb_list' = [ b \in DOMAIN bb_list |->
                      [bb_list[b] EXCEPT !.dominator = immediate_dominator(b, dominators)] ]
    /\ prev' = <<>>
    /\ dominators' = <<>>
    /\ pc' = "done"
    /\ outcome' = Returned("Block")
    /\ UNCHANGED << disData, loopVars, nodes, jump_targets, cursor, changed, todo, liftVars >>

\* The next lists of a graph of n blocks: at most two successors, as
\* create_basic_blocks builds them, of any blocks of the graph (the order of
\* two successors is not looked at by compute_dominators).
SuccessorLists(n) ==
    { <<>> } \cup { << a >> : a \in 1..n }
        \cup { q \in { << a, b >> : a \in 1..n, b \in 1..n } : q[1] <= q[2] }

\* The graphs of n blocks.
Graphs(n) ==
    { [ j \in 1..n |-> BasicBlock(j - 1, <<>>, next[j], 0) ] :
          next \in [1..n -> SuccessorLists(n)] }

\* compute_dominators called on a graph of at most MaxBlocks blocks.
InitDom ==
    /\ pc = "prev"
    /\ InitDisassembled
    /\ nodes = <<>>
    /\ jump_targets = {}
    /\ bb_list \in UNION { Graphs(n) : n \in 1..MaxBlocks }
    /\ cursor = 0
    /\ prev = <<>>
    /\ dominators = <<>>
    /\ changed = FALSE
    /\ todo = {}
    /\ stack = <<>>
    /\ next_id = 0
    /\ global_vars = {}
    /\ local_vars = {}
    /\ generated_vars = {}
    /\ new_n = NoNode
    /\ block = <<>>
    /\ tree = NoNode

NextDom ==
    \/ SetUpDominators
    \/ BeginSweep
    \/ Refine
    \/ ImmediateDominators

SpecDom == InitDom /\ [][NextDom]_vars

\* compute_dominators runs on: the pass is one thread and no step of it waits.
SpecDomFair == SpecDom /\ WF_vars(NextDom)

\* --------------------------------------- passes.StackBasedOpcodeRemover
opcode_to_binary ==
    [ o \in { "BINARY_SUBSCR", "BINARY_ADD", "BINARY_SUBTRACT", "BINARY_MULTIPLY",
              "BINARY_DIVIDE", "BINARY_MODULO", "BINARY_TRUE_DIVIDE",
              "BINARY_FLOOR_DIVIDE", "BINARY_POWER", "BINARY_LSHIFT",
              "BINARY_RSHIFT", "BINARY_OR", "BINARY_AND", "BINARY_XOR" } |->
        CASE o = "BINARY_SUBSCR" -> "[]"
          [] o = "BINARY_ADD" -> "+"
          [] o = "BINARY_SUBTRACT" -> "-"
          [] o = "BINARY_MULTIPLY" -> "*"
          [] o = "BINARY_DIVIDE" -> "/"
          [] o = "BINARY_MODULO" -> "%"
          [] o = "BINARY_TRUE_DIVIDE" -> "/"
          [] o = "BINARY_FLOOR_DIVIDE" -> "//"
          [] o = "BINARY_POWER" -> "**"
          [] o = "BINARY_LSHIFT" -> "<<"
          [] o = "BINARY_RSHIFT" -> "<<"
          [] o = "BINARY_OR" -> "|"
          [] o = "BINARY_AND" -> "&"
          [] o = "BINARY_XOR" -> "^" ]

compare_to_binary ==
    << "<", "<=", "==", "!=", ">", ">=", "in", "not in", "is", "is not" >>

\* Nodes the lifting builds. A constant is held as its text, so that any two
\* constants can be compared.
Assign(left, right) == [node |-> "Assign", left |-> left, right |-> right]
Binary(o, left, right) == [node |-> "Binary", op |-> o, left |-> left, right |-> right]
Attr(left, right) == [node |-> "Attr", left |-> left, right |-> right]
ReturnNode(child) == [node |-> "Return", child |-> child]
RaiseNode(exception) == [node |-> "Raise", exception |-> exception]
Call(func, args, kwargs) == [node |-> "Call", func |-> func, args |-> args, kwargs |-> kwargs]
DictItem(key, value) == [node |-> "DictItem", key |-> key, value |-> value]
SliceRange(from, stop, step) ==
    [node |-> "SliceRange", start |-> from, stop |-> stop, step |-> step]
Collection(class, ns) == [node |-> class, nodes |-> ns]

\* [Ident(name) for name in names]
Idents(names) == [ k \in DOMAIN names |-> Ident(names[k]) ]

\* Python's list[-k:] and list[:-k] for k >= 0.
LastK(q, k) == IF k = 0 \/ k >= Len(q) THEN q ELSE SubSeq(q, Len(q) - k + 1, Len(q))
ButLastK(q, k) == IF k = 0 \/ k >= Len(q) THEN <<>> ELSE SubSeq(q, 1, Len(q) - k)

\* reversed(q)
Reversed(q) == [ k \in DOMAIN q |-> q[Len(q) + 1 - k] ]

\* '$%d' % id
Dollar(id) == "$" \o ToString(id)

\* Context.vars for the sets as given.
ContextVars(gl, lo, gen) == gl \cup lo \cup gen

\* new_name: the id the loop stops at, from next_id = id on.
RECURSIVE new_id(_, _)
new_id(id, taken) == IF Dollar(id) \notin taken THEN id ELSE new_id(id + 1, taken)

\* [self.new_name() for i in range(k)]: the names, and next_id afterwards.
RECURSIVE new_names(_, _, _)
new_names(k, id, taken) ==
    IF k = 0 THEN [names |-> <<>>, next_id |-> id]
    ELSE LET n == new_id(id, taken)
             rest == new_names(k - 1, n + 1, taken \cup { Dollar(n) })
         IN  [names |-> << Dollar(n) >> \o rest.names, next_id |-> rest.next_id]

\* visit_Opcode returns node (NoNode for None) with the stack and the Context
\* as given, and visit_Block appends what is returned to block.nodes.
Visited(st, node, gl, lo, gen, id) ==
    /\ stack' = st
    /\ new_n' = node
    /\ block' = IF node = NoNode THEN block ELSE Append(block, node)
    /\ global_vars' = gl
    /\ local_vars' = lo
    /\ generated_vars' = gen
    /\ next_id' = id
    /\ cursor' = cursor + 1
    /\ UNCHANGED << pc, outcome >>

\* return self.assign(node), the stack and the Context being as given when
\* assign is called.
Assigned(st, node, gl, lo) ==
    LET id == new_id(next_id, ContextVars(gl, lo, generated_vars))
    IN  Visited(Append(st, Dollar(id)), Assign(Ident(Dollar(id)), node),
                gl, lo, generated_vars \cup { Dollar(id) }, id + 1)

\* An exception leaves visit_Opcode, the stack and the Context being as given.
Failed(exc, msg, st, gl, lo, gen, id) ==
    /\ RaiseInPass(exc, msg)
    /\ stack' = st
    /\ global_vars' = gl
    /\ local_vars' = lo
    /\ generated_vars' = gen
    /\ next_id' = id
    /\ UNCHANGED << new_n, block, cursor >>

\* list.pop() on the empty list, the stack being st by then.
PopFromEmpty(st) ==
    Failed("IndexError", "pop from empty list", st,
           global_vars, local_vars, generated_vars, next_id)

\* visit_Block is at a node of the Block.
Visiting == pc = "lift" /\ cursor < MaxLift

\* What a pass leaves alone while the lifting runs.
Unlifted == << disData, loopVars, nodes, jump_targets, bb_list, domVars, tree >>

\* The names opcodes are drawn from; the second has the form of a generated name.
LiftNames == { "a", "$0" }
\* The counts opcodes are drawn from.
LiftCounts == 0..MaxLiftArg

LiftLoadConst ==
    /\ Visiting
    /\ Assigned(stack, Const("c"), global_vars, local_vars)
    /\ UNCHANGED Unlifted

LiftLoadName ==
    /\ Visiting
    /\ \E o \in { "LOAD_GLOBAL", "LOAD_NAME", "LOAD_FAST" }, name \in LiftNames :
         LET gl == IF o = "LOAD_GLOBAL" THEN global_vars \cup { name } ELSE global_vars
             lo == IF o = "LOAD_GLOBAL" THEN local_vars ELSE local_vars \cup { name }
         IN  Assigned(stack, Ident(name), gl, lo)
    /\ UNCHANGED Unlifted

LiftStoreName ==
    /\ Visiting
    /\ \E o \in { "STORE_GLOBAL", "STORE_NAME", "STORE_FAST" }, name \in LiftNames :
         LET gl == IF o = "STORE_GLOBAL" THEN global_vars \cup { name } ELSE global_vars
             lo == IF o = "STORE_GLOBAL" THEN local_vars ELSE local_vars \cup { name }
         IN  IF stack = <<>>
             THEN Failed("IndexError", "pop from empty list", stack, gl, lo,
                         generated_vars, next_id)
             ELSE Visited(Front(stack), Assign(Ident(name), Ident(Last(stack))),
                          gl, lo, generated_vars, next_id)
    /\ UNCHANGED Unlifted

\* The BINARY_ and INPLACE_ opcodes lists are drawn from; the last has no
\* entry in opcode_to_binary.
BinaryOps ==
    { "BINARY_ADD", "BINARY_LSHIFT", "BINARY_RSHIFT", "INPLACE_ADD", "INPLACE_RSHIFT",
      "BINARY_MATRIX_MULTIPLY" }

\* node.op.replace('INPLACE_', 'BINARY_')
as_binary(o) ==
    CASE o = "INPLACE_ADD" -> "BINARY_ADD"
      [] o = "INPLACE_RSHIFT" -> "BINARY_RSHIFT"
      [] OTHER -> o

LiftBinary ==
    /\ Visiting
    /\ \E o \in BinaryOps :
         IF Len(stack) < 2
         THEN PopFromEmpty(<<>>)
         ELSE LET b == stack[Len(stack)]
                  a == stack[Len(stack) - 1]
                  st == ButLastK(stack, 2)
              IN  IF as_binary(o) \notin DOMAIN opcode_to_binary
                  THEN Failed("KeyError", "opcode_to_binary", st, global_vars,
                              local_vars, generated_vars, next_id)
                  ELSE Assigned(st, Binary(opcode_to_binary[as_binary(o)], Ident(a), Ident(b)),
                                global_vars, local_vars)
    /\ UNCHANGED Unlifted

LiftCompare ==
    /\ Visiting
    /\ \E k \in LiftCounts \cup { Len(compare_to_binary) } :
         IF Len(stack) < 2
         THEN PopFromEmpty(<<>>)
         ELSE LET b == stack[Len(stack)]
                  a == stack[Len(stack) - 1]
                  st == ButLastK(stack, 2)
              IN  IF k >= Len(compare_to_binary)
                  THEN Failed("IndexError", "list index out of range", st, global_vars,
                              local_vars, generated_vars, next_id)
                  ELSE Assigned(st, Binary(compare_to_binary[k + 1], Ident(a), Ident(b)),
                                global_vars, local_vars)
    /\ UNCHANGED Unlifted

LiftLoadAttr ==
    /\ Visiting
    /\ \E name \in LiftNames :
         IF stack = <<>>
         THEN PopFromEmpty(stack)
         ELSE Assigned(Front(stack), Attr(Ident(Last(stack)), Const(name)),
                       global_vars, local_vars)
    /\ UNCHANGED Unlifted

LiftPopTop ==
    /\ Visiting
    /\ IF stack = <<>>
       THEN PopFromEmpty(stack)
       ELSE Visited(Front(stack), NoNode, global_vars, local_vars, generated_vars, next_id)
    /\ UNCHANGED Unlifted

LiftDupTop ==
    /\ Visiting
    /\ IF stack = <<>>
       THEN Failed("IndexError", "list index out of range", stack, global_vars,
                   local_vars, generated_vars, next_id)
       ELSE Visited(Append(stack, Last(stack)), NoNode, global_vars, local_vars,
                    generated_vars, next_id)
    /\ UNCHANGED Unlifted

LiftDupTopx ==
    /\ Visiting
    /\ \E k \in LiftCounts :
         Visited(stack \o LastK(stack, k), NoNode, global_vars, local_vars,
                 generated_vars, next_id)
    /\ UNCHANGED Unlifted

LiftBuildMap ==
    /\ Visiting
    /\ Assigned(stack, Collection("Dict", <<>>), global_vars, local_vars)
    /\ UNCHANGED Unlifted

LiftStoreMap ==
    /\ Visiting
    /\ IF Len(stack) < 2
       THEN PopFromEmpty(<<>>)
       ELSE IF Len(stack) < 3
       THEN Failed("IndexError", "list index out of range", <<>>, global_vars,
                   local_vars, generated_vars, next_id)
       ELSE LET key == stack[Len(stack)]
                value == stack[Len(stack) - 1]
                dict == stack[Len(stack) - 2]
            IN  Visited(ButLastK(stack, 2),
                        Assign(Binary("[]", Ident(dict), Ident(key)), Ident(value)),
                        global_vars, local_vars, generated_vars, next_id)
    /\ UNCHANGED Unlifted

LiftBuildSlice ==
    /\ Visiting
    /\ \E k \in LiftCounts \cup { 3 } :
         LET names == Idents(LastK(stack, k))
             st == ButLastK(stack, k)
             args == IF Len(names) = 2 THEN Append(names, Const(None)) ELSE names
         IN  IF k \notin { 2, 3 }
             THEN Failed("AssertionError", "node.arg.value in [2, 3]", stack, global_vars,
                         local_vars, generated_vars, next_id)
             ELSE IF Len(args) # 3
             THEN Failed("AssertionError", "len(self.fields) == len(args)", st, global_vars,
                         local_vars, generated_vars, next_id)
             ELSE Assigned(st, SliceRange(args[1], args[2], args[3]), global_vars, local_vars)
    /\ UNCHANGED Unlifted

\* The BUILD_LIST and BUILD_TUPLE branches for the count k:
\* names, self.stack = self.stack[-k:], self.stack[:-k], and the literal of
\* the names is assigned.
build_collection(class, k) ==
    Assigned(ButLastK(stack, k), Collection(class, Idents(LastK(stack, k))),
             global_vars, local_vars)

LiftBuildList ==
    /\ Visiting
    /\ \E k \in LiftCounts : build_collection("List", k)
    /\ UNCHANGED Unlifted

LiftRaiseVarargs ==
    /\ Visiting
    /\ \E k \in LiftCounts :
         IF k = 1
         THEN IF stack = <<>>
              THEN PopFromEmpty(stack)
              ELSE Visited(Front(stack), RaiseNode(Ident(Last(stack))), global_vars,
                           local_vars, generated_vars, next_id)
         ELSE Visited(stack, AstOpcode(cursor, 3, "RAISE_VARARGS", Const(ToString(k))), global_vars,
                      local_vars, generated_vars, next_id)
    /\ UNCHANGED Unlifted

\* The dict items of count keyword arguments popped from the list q (value
\* first, then key, each item put in front).
RECURSIVE kwargs_of(_, _)
kwargs_of(q, count) ==
    IF count = 0 THEN <<>>
    ELSE kwargs_of(ButLastK(q, 2), count - 1)
             \o << DictItem(Ident(q[Len(q) - 1]), Ident(q[Len(q)])) >>

LiftCallFunction ==
    /\ Visiting
    /\ \E k \in LiftCounts \cup { 256 } :
         LET kwarg_count == k \div 256
             arg_count == k % 256
             popped == 2 * kwarg_count + arg_count + 1
         IN  IF Len(stack) < popped
             THEN PopFromEmpty(<<>>)
             ELSE LET st1 == SubSeq(stack, 1, Len(stack) - 2 * kwarg_count)
                      st2 == SubSeq(st1, 1, Len(st1) - arg_count)
                      kwargs == Collection("Dict", kwargs_of(stack, kwarg_count))
                      args == Collection("Tuple", Idents(SubSeq(st1, Len(st1) - arg_count + 1, Len(st1))))
                  IN  Assigned(Front(st2), Call(Ident(Last(st2)), args, kwargs),
                               global_vars, local_vars)
    /\ UNCHANGED Unlifted

LiftPrintItem ==
    /\ Visiting
    /\ IF stack = <<>>
       THEN PopFromEmpty(stack)
       ELSE Visited(Front(stack), Collection("PrintNoNewline", << Ident(Last(stack)) >>),
                    global_vars, local_vars, generated_vars, next_id)
    /\ UNCHANGED Unlifted

LiftPrintNewline ==
    /\ Visiting
    /\ Visited(stack, Collection("Print", <<>>), global_vars, local_vars,
               generated_vars, next_id)
    /\ UNCHANGED Unlifted

LiftReturnValue ==
    /\ Visiting
    /\ IF stack = <<>>
       THEN PopFromEmpty(stack)
       ELSE Visited(Front(stack), ReturnNode(Ident(Last(stack))), global_vars, local_vars,
                    generated_vars, next_id)
    /\ UNCHANGED Unlifted

LiftRotTwo ==
    /\ Visiting
    /\ IF Len(stack) < 2
       THEN Failed("IndexError", "list index out of range", stack, global_vars,
                   local_vars, generated_vars, next_id)
       ELSE LET n == Len(stack)
            IN  Visited([stack EXCEPT ![n] = stack[n - 1], ![n - 1] = stack[n]], NoNode,
                        global_vars, local_vars, generated_vars, next_id)
    /\ UNCHANGED Unlifted

LiftRotThree ==
    /\ Visiting
    /\ IF Len(stack) < 3
       THEN Failed("IndexError", "list index out of range", stack, global_vars,
                   local_vars, generated_vars, next_id)
       ELSE LET n == Len(stack)
            IN  Visited([stack EXCEPT ![n] = stack[n - 1], ![n - 1] = stack[n - 2],
                                      ![n - 2] = stack[n]], NoNode,
                        global_vars, local_vars, generated_vars, next_id)
    /\ UNCHANGED Unlifted

LiftBuildTuple ==
    /\ Visiting
    /\ \E k \in LiftCounts : build_collection("Tuple", k)
    /\ UNCHANGED Unlifted

LiftUnpackSequence ==
    /\ Visiting
    /\ \E k \in LiftCounts :
         LET made == new_names(k, next_id, ContextVars(global_vars, local_vars, generated_vars))
             gen == generated_vars \cup Range(made.names)
         IN  IF stack = <<>>
             THEN Failed("IndexError", "pop from empty list", stack, global_vars,
                         local_vars, gen, made.next_id)
             ELSE Visited(Front(stack) \o Reversed(made.names),
                          Assign(Collection("Tuple", Idents(made.names)), Ident(Last(stack))),
                          global_vars, local_vars, gen, made.next_id)
    /\ UNCHANGED Unlifted

LiftSetLineno ==
    /\ Visiting
    /\ Visited(stack, NoNode, global_vars, local_vars, generated_vars, next_id)
    /\ UNCHANGED Unlifted

\* Opcodes visit_Opcode has no branch for; it returns the node.
OtherOps == { "JUMP_IF_FALSE_OR_POP", "GET_ITER" }

LiftOther ==
    /\ Visiting
    /\ \E o \in OtherOps :
         Visited(stack, AstOpcode(cursor, IF o = "GET_ITER" THEN 1 ELSE 3, o,
                                  IF o = "GET_ITER" THEN NoNode ELSE Const("0")),
                 global_vars, local_vars, generated_vars, next_id)
    /\ UNCHANGED Unlifted

visit_Opcode ==
    \/ LiftLoadConst
    \/ LiftLoadName
    \/ LiftStoreName
    \/ LiftBinary
    \/ LiftCompare
    \/ LiftLoadAttr
    \/ LiftPopTop
    \/ LiftDupTop
    \/ LiftDupTopx
    \/ LiftBuildMap
    \/ LiftStoreMap
    \/ LiftBuildSlice
    \/ LiftBuildList
    \/ LiftRaiseVarargs
    \/ LiftCallFunction
    \/ LiftPrintItem
    \/ LiftPrintNewline
    \/ LiftReturnValue
    \/ LiftRotTwo
    \/ LiftRotThree
    \/ LiftBuildTuple
    \/ LiftUnpackSequence
    \/ LiftSetLineno
    \/ LiftOther

\* StackBasedOpcodeRemover.visit_Block has gone through the Block's nodes
\* and returns block.
LiftDone ==
    /\ pc = "lift"
    /\ pc' = "done"
    /\ outcome' = Returned("Block")
    /\ UNCHANGED << disData, loopVars, passVars >>

\* A StackBasedOpcodeRemover over a new Context visits a Block of at most
\* MaxLift Opcode nodes; a node is fixed when visit_Block comes to it.
InitLift ==
    /\ pc = "lift"
    /\ InitDisassembled
    /\ InitPasses

NextLift ==
    \/ visit_Opcode
    \/ LiftDone

SpecLift == InitLift /\ [][NextLift]_vars

\* ------------------------------------------------------ ast: visitors
\* ast.If; false is NoNode for None.
If(cond, true, false) == [node |-> "If", cond |-> cond, true |-> true, false |-> false]

\* The subclasses of ast._Collection.
CollectionClasses == { "Block", "Tuple", "List", "Print", "PrintNoNewline", "Global", "Dict" }

\* The fields of a node's class that hold nodes, in the order of `fields`.
NodeFields(n) ==
    CASE n.node \in { "Assign", "Binary", "Attr" } -> << "left", "right" >>
      [] n.node = "DictItem" -> << "key", "value" >>
      [] n.node = "Opcode" -> << "arg" >>
      [] n.node = "Return" -> << "child" >>
      [] n.node = "If" -> << "cond", "true", "false" >>
      [] n.node = "Call" -> << "func", "args", "kwargs" >>
      [] n.node = "Raise" -> << "exception" >>
      [] n.node = "SliceRange" -> << "start", "stop", "step" >>
      [] OTHER -> << >>

\* Node.children and _Collection.children: the fields that are nodes.
children(n) ==
    IF n.node \in CollectionClasses THEN n.nodes
    ELSE SelectSeq([ k \in DOMAIN NodeFields(n) |-> n[NodeFields(n)[k]] ],
                   LAMBDA c : c # NoNode)

\* The lists of a list of lists, joined.
RECURSIVE Concat(_)
Concat(qs) == IF qs = << >> THEN << >> ELSE Head(qs) \o Concat(Tail(qs))

\* CloneVisitor.clone_collection and CloneVisitor.clone: the node's class
\* built again from what visit returns for each node it holds.
clone(n, visit(_)) ==
    IF n.node \in CollectionClasses
    THEN [n EXCEPT !.nodes = [ k \in DOMAIN n.nodes |-> visit(n.nodes[k]) ]]
    ELSE [ f \in DOMAIN n |->
             IF f \in Range(NodeFields(n)) /\ n[f] # NoNode THEN visit(n[f]) ELSE n[f] ]

\* Node.__eq__ on two leaves: the same class and fields that Python's ==
\* takes for equal, which 1 and 1.0 are.
node_eq(a, b) ==
    /\ a.node = b.node
    /\ IF a.node = "Ident" THEN a.name = b.name
       ELSE a.value = b.value \/ { a.value, b.value } \subseteq { "1", "1.0" }

\* list.__eq__ on two lists of leaves.
list_eq(p, q) == Len(p) = Len(q) /\ \A k \in DOMAIN p : node_eq(p[k], q[k])

\* ----------------------------------------------------- passes.FindUses
\* n is what FindUses.visit_Block counts as a write.
is_write(n) == n.node = "Assign" /\ n.left.node = "Ident"

\* The names FindUses counts a read of when n accepts it, one entry a read.
RECURSIVE reads(_)
reads(n) ==
    IF n.node = "Ident" THEN << n.name >>
    ELSE IF n.node = "Block"
    THEN Concat([ k \in DOMAIN n.nodes |->
                    IF is_write(n.nodes[k]) THEN reads(n.nodes[k].right)
                    ELSE reads(n.nodes[k]) ])
    ELSE Concat([ k \in DOMAIN children(n) |-> reads(children(n)[k]) ])

\* The names FindUses counts a write of when n accepts it, one entry a write.
RECURSIVE writes(_)
writes(n) ==
    IF n.node = "Block"
    THEN Concat([ k \in DOMAIN n.nodes |->
                    IF is_write(n.nodes[k])
                    THEN << n.nodes[k].left.name >> \o writes(n.nodes[k].right)
                    ELSE writes(n.nodes[k]) ])
    ELSE Concat([ k \in DOMAIN children(n) |-> writes(children(n)[k]) ])

\* counts.get(name, 0)
count(name, names) == Cardinality({ k \in DOMAIN names : names[k] = name })

\* The names of from with exactly one read and one write in n.
one_read_one_write(n, from) ==
    { name \in from : count(name, reads(n)) = 1 /\ count(name, writes(n)) = 1 }

\* ------------------------------------------------ passes.IdentReplacer
RECURSIVE IdentReplacer(_, _)
IdentReplacer(map, n) ==
    IF n.node = "Ident"
    THEN IF n.name \in DOMAIN map THEN IdentReplacer(map, map[n.name]) ELSE n
    ELSE clone(n, LAMBDA c : IdentReplacer(map, c))

\* ---------------------------------------------- passes.EvaluationOrder
RECURSIVE EvaluationOrder(_, _)
EvaluationOrder(n, names_to_ignore) ==
    IF n.node = "Ident" THEN IF n.name \notin names_to_ignore THEN << n >> ELSE << >>
    ELSE IF n.node = "Const" THEN << n >>
    ELSE IF n.node = "Assign"
    THEN EvaluationOrder(n.right, names_to_ignore) \o EvaluationOrder(n.left, names_to_ignore)
    ELSE Concat([ k \in DOMAIN children(n) |->
                    EvaluationOrder(children(n)[k], names_to_ignore) ])

get_order(ns, names_to_ignore) ==
    Concat([ k \in DOMAIN ns |-> EvaluationOrder(ns[k], names_to_ignore) ])

\* --------------------------------------- passes.CombinePrintStatements
\* The loop going on to the next node after a pair is combined.
RECURSIVE combine_prints_advancing(_)
combine_prints_advancing(ns) ==
    IF Len(ns) < 2 THEN ns
    ELSE IF ns[1].node = "PrintNoNewline" /\ ns[2].node \in { "Print", "PrintNoNewline" }
    THEN << [ns[2] EXCEPT !.nodes = ns[1].nodes \o @] >>
             \o combine_prints_advancing(SubSeq(ns, 3, Len(ns)))
    ELSE << ns[1] >> \o combine_prints_advancing(Tail(ns))

\* The while loop of visit_Block over the nodes of the cloned Block.
RECURSIVE combine_prints(_)
combine_prints(ns) ==
    IF Len(ns) < 2 THEN ns
    ELSE IF ns[1].node = "PrintNoNewline" /\ ns[2].node \in { "Print", "PrintNoNewline" }
    THEN combine_prints(<< [ns[2] EXCEPT !.nodes = ns[1].nodes \o @] >>
                            \o SubSeq(ns, 3, Len(ns)))
    ELSE << ns[1] >> \o combine_prints(Tail(ns))

RECURSIVE CombinePrintStatements(_)
CombinePrintStatements(n) ==
    LET cloned == clone(n, CombinePrintStatements)
    IN  IF n.node = "Block" THEN [cloned EXCEPT !.nodes = combine_prints(@)] ELSE cloned

\* -------------------------------------- passes.ReconstructDictLiterals
\* n is the assignment of a value to a generated variable.
is_generated_write(n, gen) == is_write(n) /\ n.left.name \in gen

\* The pattern without its last line: $0 and $1 may be used elsewhere.
is_store_used_elsewhere(n, value, key, store, gen, once) ==
    /\ is_generated_write(value, gen)
    /\ is_generated_write(key, gen)
    /\ store.node = "Assign" /\ store.left.node = "Binary" /\ store.left.op = "[]"
    /\ store.left.left.node = "Ident" /\ store.left.left.name = n.left.name
    /\ store.left.right.node = "Ident" /\ store.left.right.name = key.left.name
    /\ store.right.node = "Ident" /\ store.right.name = value.left.name

\* The three nodes value, key, store are "$0 = x; $1 = y; $2[$1] = $0" for
\* the dictionary assigned by n, and $0 and $1 are used nowhere else: the
\* pattern of visit_Block, whose negation breaks the inner loop.
is_store(n, value, key, store, gen, once) ==
    /\ is_generated_write(value, gen)
    /\ is_generated_write(key, gen)
    /\ store.node = "Assign" /\ store.left.node = "Binary" /\ store.left.op = "[]"
    /\ store.left.left.node = "Ident" /\ store.left.left.name = n.left.name
    /\ store.left.right.node = "Ident" /\ store.left.right.name = key.left.name
    /\ store.right.node = "Ident" /\ store.right.name = value.left.name
    /\ key.left.name \in once /\ value.left.name \in once

\* The run with the value of each store where its key belongs.
RECURSIVE stores_value_for_key(_, _, _, _, _)
stores_value_for_key(ns, at, n, gen, once) ==
    IF at + 2 <= Len(ns) /\ is_store(n, ns[at], ns[at + 1], ns[at + 2], gen, once)
    THEN stores_value_for_key(ns, at + 3,
                [n EXCEPT !.right.nodes = Append(@, DictItem(ns[at].right, ns[at + 1].right))],
                gen, once)
    ELSE [n |-> n, at |-> at]

\* "find a run of consecutive stores to the dictionary": n with the items
\* appended, and the place the run ends at.
RECURSIVE stores(_, _, _, _, _)
stores(ns, at, n, gen, once) ==
    IF at + 2 <= Len(ns) /\ is_store(n, ns[at], ns[at + 1], ns[at + 2], gen, once)
    THEN stores(ns, at + 3,
                [n EXCEPT !.right.nodes = Append(@, DictItem(ns[at + 1].right, ns[at].right))],
                gen, once)
    ELSE [n |-> n, at |-> at]

\* The outer loop of visit_Block from the node at `at` on.
RECURSIVE reconstruct(_, _, _, _)
reconstruct(ns, at, gen, once) ==
    IF at > Len(ns) THEN << >>
    ELSE IF is_generated_write(ns[at], gen) /\ ns[at].right.node = "Dict"
    THEN LET run == stores(ns, at + 1, ns[at], gen, once)
         IN  << run.n >> \o reconstruct(ns, run.at, gen, once)
    ELSE << ns[at] >> \o reconstruct(ns, at + 1, gen, once)

RECURSIVE ReconstructDictLiterals(_, _, _)
ReconstructDictLiterals(n, gen, once) ==
    LET cloned == clone(n, LAMBDA c : ReconstructDictLiterals(c, gen, once))
    IN  IF n.node = "Block"
        THEN Collection("Block", reconstruct(cloned.nodes, 1, gen, once))
        ELSE cloned

\* ----------------------------------------- passes.MakeIdentifiersValid
\* The names of the model that r'^[^\d\W]\w*$' does not match are the ones
\* that begin with '$'.
InvalidNames == { Dollar(id) : id \in 0..(MaxLift * (MaxLiftArg + 2)) }

\* re.match(r'^[^\d\W]\w*$', old_name)
is_valid(name) == name \notin InvalidNames

\* gen_name: the k-th name it yields, k = 1 being the first.
gen_name(k) ==
    IF k <= 26
    THEN << "a", "b", "c", "d", "e", "f", "g", "h", "i", "j", "k", "l", "m", "n", "o",
            "p", "q", "r", "s", "t", "u", "v", "w", "x", "y", "z" >>[k]
    ELSE "var" \o ToString(k - 26)

\* The name the iterator is at, whether or not it is taken.
RECURSIVE next_name_at_hand(_, _)
next_name_at_hand(k, taken) == k

\* The place in gen_name of the first name, from k on, not in taken.
RECURSIVE next_name(_, _)
next_name(k, taken) == IF gen_name(k) \notin taken THEN k ELSE next_name(k + 1, taken)

\* The names of the Ident nodes of n in the order a CloneVisitor visits them.
RECURSIVE ident_names(_)
ident_names(n) ==
    IF n.node = "Ident" THEN << n.name >>
    ELSE Concat([ k \in DOMAIN children(n) |-> ident_names(children(n)[k]) ])

\* visit_Ident over the names in visiting order: name_map and
\* context.generated_vars at the end, name_iter being at k, and others the
\* global and local names.
RECURSIVE name_map(_, _, _, _, _)
name_map(names, k, map, others, gen) ==
    IF names = << >> THEN [map |-> map, generated_vars |-> gen]
    ELSE LET old_name == Head(names)
         IN  IF is_valid(old_name)
             THEN name_map(Tail(names), k, (old_name :> old_name) @@ map, others, gen)
             ELSE IF old_name \in DOMAIN map
             THEN name_map(Tail(names), k, map, others, gen)
             ELSE LET at == next_name(k, others \cup gen)
                  IN  name_map(Tail(names), at + 1, (old_name :> gen_name(at)) @@ map,
                               others, gen \cup { gen_name(at) })

\* The clone with every Ident named as map says.
RECURSIVE renamed(_, _)
renamed(n, map) ==
    IF n.node = "Ident" THEN Ident(map[n.name])
    ELSE clone(n, LAMBDA c : renamed(c, map))

\* ---------------------------------------------- passes.InlineVariables
\* "find a run of writes to names in self.inline_candidates": names, from
\* the node at `at` on.
RECURSIVE run_of_writes(_, _, _, _)
run_of_writes(ns, at, names, inline_candidates) ==
    IF at > Len(ns) THEN names
    ELSE IF ~is_write(ns[at]) \/ ns[at].left.name \notin inline_candidates THEN names
    ELSE IF \E name \in Range(names) : name \in Range(reads(ns[at].right)) THEN names
    ELSE run_of_writes(ns, at + 1, Append(names, ns[at].left.name), inline_candidates)

\* "find a run of reads of all the names found in the run of writes": j and
\* remaining when the loop ends.
RECURSIVE run_of_reads(_, _, _)
run_of_reads(ns, j, remaining) ==
    IF remaining = {} \/ j > Len(ns) THEN [j |-> j, remaining |-> remaining]
    ELSE run_of_reads(ns, j + 1, remaining \ Range(reads(ns[j])))

\* The conversion made whenever there is a result at all.
parallel_of_any(results) ==
    IF Len(results) >= 1 /\ \A k \in DOMAIN results : is_write(results[k])
    THEN << Assign(Collection("Tuple", [ k \in DOMAIN results |-> results[k].left ]),
                   Collection("Tuple", [ k \in DOMAIN results |-> results[k].right ])) >>
    ELSE results

\* "convert to parallel assignment if possible"
parallel(results) ==
    IF Len(results) >= 2 /\ \A k \in DOMAIN results : is_write(results[k])
    THEN << Assign(Collection("Tuple", [ k \in DOMAIN results |-> results[k].left ]),
                   Collection("Tuple", [ k \in DOMAIN results |-> results[k].right ])) >>
    ELSE results

\* The attempt with "if names and not remaining" taken for "if not remaining".
attempt_without_names(ns, first, inline_candidates) ==
    LET names == run_of_writes(ns, first, << >>, inline_candidates)
        read == run_of_reads(ns, first + Len(names), Range(names))
        map == [ name \in Range(names) |->
                   ns[first - 1 + CHOOSE k \in DOMAIN names : names[k] = name].right ]
        inlined == [ k \in 1..(read.j - first - Len(names)) |->
                       IdentReplacer(map, ns[first + Len(names) + k - 1]) ]
        results == parallel(inlined)
        opportunity == read.remaining = {}
    IN  [names |-> names, j |-> read.j, inlined |-> inlined, results |-> results,
         opportunity |-> opportunity,
         accepted |-> opportunity
                        /\ list_eq(get_order(SubSeq(ns, first, read.j - 1), Range(names)),
                                   get_order(results, Range(names)))]

\* What visit_Block tries at the node at `first`: the run of writes, the end j of
\* the run of reads, the statements after the replacement, the results, and
\* whether they are accepted.
attempt(ns, first, inline_candidates) ==
    LET names == run_of_writes(ns, first, << >>, inline_candidates)
        read == run_of_reads(ns, first + Len(names), Range(names))
        map == [ name \in Range(names) |->
                   ns[first - 1 + CHOOSE k \in DOMAIN names : names[k] = name].right ]
        inlined == [ k \in 1..(read.j - first - Len(names)) |->
                       IdentReplacer(map, ns[first + Len(names) + k - 1]) ]
        results == parallel(inlined)
        opportunity == names # << >> /\ read.remaining = {}
    IN  [names |-> names, j |-> read.j, inlined |-> inlined, results |-> results,
         opportunity |-> opportunity,
         accepted |-> opportunity
                        /\ list_eq(get_order(SubSeq(ns, first, read.j - 1), Range(names)),
                                   get_order(results, Range(names)))]

RECURSIVE InlineVariables(_, _)
RECURSIVE inline_pass(_, _, _)
RECURSIVE inline_block(_, _)

\* "while i < len(node.nodes)" from `first` on: block.nodes and is_changed.
inline_pass(ns, first, inline_candidates) ==
    IF first > Len(ns) THEN [nodes |-> << >>, is_changed |-> FALSE]
    ELSE LET try == attempt(ns, first, inline_candidates)
         IN  IF try.accepted
             THEN [nodes |-> try.results \o inline_pass(ns, try.j, inline_candidates).nodes,
                   is_changed |-> TRUE]
             ELSE LET rest == inline_pass(ns, first + 1, inline_candidates)
                  IN  [nodes |-> << InlineVariables(ns[first], inline_candidates) >> \o rest.nodes,
                       is_changed |-> rest.is_changed]

\* "while True": passes until one changes nothing.
inline_block(ns, inline_candidates) ==
    LET pass == inline_pass(ns, 1, inline_candidates)
    IN  IF pass.is_changed THEN inline_block(pass.nodes, inline_candidates) ELSE pass.nodes

InlineVariables(n, inline_candidates) ==
    IF n.node = "Block" THEN Collection("Block", inline_block(n.nodes, inline_candidates))
    ELSE clone(n, LAMBDA c : InlineVariables(c, inline_candidates))

\* ----------------------------------------------- passes.Context.decompile
\* What decompile leaves alone once the lifting is over.
Lifted == << disData, loopVars, blockVars, domVars, stack, next_id, new_n, block >>

\* The lifting handing its Block straight to the first InlineVariables.
DecompileLiftedAsListed ==
    /\ pc = "lift"
    /\ tree' = Collection("Block", block)
    /\ pc' = "InlineVariables"
    /\ UNCHANGED << Lifted, outcome, global_vars, local_vars, generated_vars >>

\* node = node.accept(StackBasedOpcodeRemover(self)): visit_Block has gone
\* through the Block's nodes and its Block is decompile's node.
DecompileLifted ==
    /\ pc = "lift"
    /\ tree' = Collection("Block", block)
    /\ pc' = "CombinePrintStatements"
    /\ UNCHANGED << Lifted, outcome, global_vars, local_vars, generated_vars >>

\* node = node.accept(p) for a pass p that returns result and leaves the
\* Context alone; `then` is the line decompile goes on to.
Accepted(result, then) ==
    /\ tree' = result
    /\ pc' = then
    /\ UNCHANGED << Lifted, outcome, global_vars, local_vars, generated_vars >>

\* node = node.accept(CombinePrintStatements())
DecompileCombinePrintStatements ==
    /\ pc = "CombinePrintStatements"
    /\ Accepted(CombinePrintStatements(tree), "InlineVariables")

\* node = node.accept(InlineVariables(self, node))
DecompileInlineVariables ==
    /\ pc = "InlineVariables"
    /\ Accepted(InlineVariables(tree, one_read_one_write(tree, local_vars \cup generated_vars)),
                "ReconstructDictLiterals")

\* node = node.accept(ReconstructDictLiterals(self, node))
DecompileReconstructDictLiterals ==
    /\ pc = "ReconstructDictLiterals"
    /\ Accepted(ReconstructDictLiterals(tree, generated_vars,
                                        one_read_one_write(tree, generated_vars)),
                "InlineVariables again")

\* node = node.accept(InlineVariables(self, node)), the second time
DecompileInlineVariablesAgain ==
    /\ pc = "InlineVariables again"
    /\ Accepted(InlineVariables(tree, one_read_one_write(tree, local_vars \cup generated_vars)),
                "CombinePrintStatements again")

\* node = node.accept(CombinePrintStatements()), the second time
DecompileCombinePrintStatementsAgain ==
    /\ pc = "CombinePrintStatements again"
    /\ Accepted(CombinePrintStatements(tree), "MakeIdentifiersValid")

\* node = node.accept(MakeIdentifiersValid(self, node))
DecompileMakeIdentifiersValid ==
    /\ pc = "MakeIdentifiersValid"
    /\ LET made == name_map(ident_names(tree), 1, [ name \in {} |-> name ],
                            global_vars \cup local_vars, generated_vars)
       IN  /\ tree' = renamed(tree, made.map)
           /\ generated_vars' = made.generated_vars
    /\ pc' = "Global"
    /\ UNCHANGED << Lifted, outcome, global_vars, local_vars >>

\* "add global statements", the names in any order a set is gone through,
\* and return node.
DecompileGlobal ==
    /\ pc = "Global"
    /\ \E names \in SeqsOfLen(global_vars, Cardinality(global_vars)) :
         /\ Range(names) = global_vars
         /\ tree' = IF global_vars # {}
                    THEN [tree EXCEPT !.nodes = << Collection("Global", Idents(names)) >> \o @]
                    ELSE tree
    /\ pc' = "done"
    /\ outcome' = Returned("Block")
    /\ UNCHANGED << Lifted, global_vars, local_vars, generated_vars >>

\* The passes of decompile after the lifting.
simplify ==
    \/ DecompileCombinePrintStatements
    \/ DecompileInlineVariables
    \/ DecompileReconstructDictLiterals
    \/ DecompileInlineVariablesAgain
    \/ DecompileCombinePrintStatementsAgain
    \/ DecompileMakeIdentifiersValid
    \/ DecompileGlobal

\* Context().decompile(node) on a Block of at most MaxLift Opcode nodes.
NextDecompile ==
    \/ visit_Opcode
    \/ DecompileLifted
    \/ simplify

SpecDecompile == InitLift /\ [][NextDecompile]_vars

\* ------------------------------ passes.StackBasedOpcodeRemover.visit_If
\* The opcodes the branches of an If node are drawn from.
BranchOps == { "LOAD_CONST", "POP_TOP", "PRINT_ITEM" }

\* The Blocks of opcodes that are the branches of an If node.
Branches == SeqsUpTo(BranchOps, MaxBranch)

\* visit_Opcode on an opcode of a branch, s holding self.stack, self.next_id,
\* context.generated_vars, the nodes of the Block visit_Block is building
\* and the exception raised, if any.
visit_branch_opcode(o, s) ==
    IF s.raises # None THEN s
    ELSE IF o = "LOAD_CONST"
    THEN LET id == new_id(s.next_id, ContextVars(global_vars, local_vars, s.generated_vars))
         IN  [s EXCEPT !.stack = Append(@, Dollar(id)),
                       !.next_id = id + 1,
                       !.generated_vars = @ \cup { Dollar(id) },
                       !.nodes = Append(@, Assign(Ident(Dollar(id)), Const("c")))]
    ELSE IF s.stack = <<>> THEN [s EXCEPT !.raises = "IndexError"]
    ELSE IF o = "POP_TOP" THEN [s EXCEPT !.stack = Front(@)]
    ELSE [s EXCEPT !.stack = Front(@),
                   !.nodes = Append(@, Collection("PrintNoNewline", << Ident(Last(s.stack)) >>))]

\* visit_Block on a branch: its opcodes one after the other.
RECURSIVE visit_branch(_, _)
visit_branch(ops, s) ==
    IF ops = <<>> THEN s ELSE visit_branch(Tail(ops), visit_branch_opcode(Head(ops), s))

\* dict(zip(old_names, new_names)): of two equal old names the later counts.
mapping(from_names, to_names) ==
    [ name \in Range(from_names) |->
        to_names[CHOOSE k \in DOMAIN from_names :
                     from_names[k] = name /\ \A q \in DOMAIN from_names : from_names[q] = name => q <= k] ]

\* node.accept(RenameVisitor(new_names, old_names)), map being its mapping.
RECURSIVE RenameVisitor(_, _)
RenameVisitor(n, map) ==
    IF n.node = "Ident"
    THEN IF n.name \in DOMAIN map THEN Ident(map[n.name]) ELSE n
    ELSE clone(n, LAMBDA c : RenameVisitor(c, map))

\* visit_If on an If node whose condition is a variable and whose branches
\* are Blocks of opcodes, the false one being None or a Block.
visit_If ==
    /\ Visiting
    /\ \E true_ops \in Branches, false_ops \in Branches, has_false \in BOOLEAN :
         LET old_stack == stack
             true == visit_branch(true_ops,
                         [stack |-> old_stack, next_id |-> next_id,
                          generated_vars |-> generated_vars, nodes |-> <<>>, raises |-> None])
             false == visit_branch(false_ops, [true EXCEPT !.stack = old_stack, !.nodes = <<>>])
             merged == new_names(Len(true.stack), false.next_id,
                                 ContextVars(global_vars, local_vars, false.generated_vars))
         IN  IF true.raises # None
             THEN Failed(true.raises, "pop from empty list", true.stack, global_vars,
                         local_vars, true.generated_vars, true.next_id)
             ELSE IF ~has_false
             THEN /\ false_ops = <<>>
                  /\ IF Len(old_stack) # Len(true.stack)
                     THEN Failed("AssertionError", "", true.stack, global_vars, local_vars,
                                 true.generated_vars, true.next_id)
                     ELSE Visited(true.stack,
                                  If(Ident("a"), Collection("Block", true.nodes), NoNode),
                                  global_vars, local_vars, true.generated_vars, true.next_id)
             ELSE IF false.raises # None
             THEN Failed(false.raises, "pop from empty list", false.stack, global_vars,
                         local_vars, false.generated_vars, false.next_id)
             ELSE IF Len(true.stack) # Len(false.stack)
             THEN Failed("AssertionError", "", false.stack, global_vars, local_vars,
                         false.generated_vars, false.next_id)
             ELSE Visited(merged.names,
                          If(Ident("a"),
                             RenameVisitor(Collection("Block", true.nodes),
                                           mapping(true.stack, merged.names)),
                             RenameVisitor(Collection("Block", false.nodes),
                                           mapping(false.stack, merged.names))),
                          global_vars, local_vars,
                          false.generated_vars \cup Range(merged.names), merged.next_id)
    /\ UNCHANGED Unlifted

\* A StackBasedOpcodeRemover visits a Block of at most MaxLift nodes, each an
\* Opcode or an If.
NextIf ==
    \/ visit_Opcode
    \/ visit_If
    \/ LiftDone

SpecIf == InitLift /\ [][NextIf]_vars

\* ---------------------------------- passes.DecompileControlStructures
\* The nodes of the blocks, those of the last block in front.
RECURSIVE flatten_last_first(_)
flatten_last_first(blocks) ==
    IF blocks = <<>> THEN <<>> ELSE flatten_last_first(Tail(blocks)) \o Head(blocks).nodes

\* sum([n.nodes for n in node.nodes], [])
RECURSIVE flatten(_)
flatten(blocks) ==
    IF blocks = <<>> THEN <<>> ELSE Head(blocks).nodes \o flatten(Tail(blocks))

\* What decomp.decompile runs once create_basic_blocks has returned: the
\* rest of ComputeBasicBlocks.visit_Block, which reads node.nodes[0] for
\* compute_dominators (that sets the dominator of each block and leaves the
\* blocks' nodes alone), and DecompileControlStructures.visit_Block, whose
\* build_if_statements does nothing and which puts the nodes of the
\* BasicBlocks in their place.
DecompileControlStructures ==
    /\ pc = "done"
    /\ outcome = Returned("bb_list")
    /\ IF bb_list = <<>>
       THEN /\ RaiseInPass("IndexError", "list index out of range")
            /\ UNCHANGED tree
       ELSE /\ tree' = Collection("Block", flatten(bb_list))
            /\ pc' = "flattened"
            /\ outcome' = Returned("Block")
    /\ UNCHANGED << disData, loopVars, blockVars, domVars, stack, next_id, global_vars,
                    local_vars, generated_vars, new_n, block >>

\* ComputeBasicBlocks().run and DecompileControlStructures().run on a Block
\* of at most MaxOps opcodes.
NextStructures ==
    \/ CollectJumpTargets
    \/ ConstructBlocks
    \/ FillNext
    \/ DecompileControlStructures

SpecStructures == InitBlocks /\ [][NextStructures]_vars

\* The expressions the statements below are made of.
SimplifyNames == { "a", "$0", "$1" }
SimplifyLeaves == { Const("c"), Const("1"), Const("1.0"), Ident("$0"), Ident("$1") }

\* Assignments and returns, for the inlining.
InlineStatements ==
    { Assign(Ident(name), e) : name \in SimplifyNames, e \in SimplifyLeaves }
        \cup { ReturnNode(Binary("+", Ident(p), Ident(q))) : p, q \in { "$0", "$1" } }

\* Prints and statements that are none, an Opcode no pass before left a
\* branch for and If nodes without a false branch among them.
PrintStatements ==
    { Collection("Print", << >>),
      Collection("PrintNoNewline", << Ident("a") >>),
      ReturnNode(Ident("a")),
      AstOpcode(0, 1, "GET_ITER", NoNode),
      If(Ident("a"), Collection("Block", << Collection("Print", << >>) >>), NoNode),
      If(Ident("a"),
         Collection("Block", << Collection("PrintNoNewline", << Ident("a") >>),
                                Collection("Print", << >>) >>),
         NoNode) }

\* What a BUILD_MAP and STORE_MAPs are lifted to, and statements like them.
DictStatements ==
    { Assign(Ident("$0"), Collection("Dict", << >>)),
      Assign(Ident("$1"), Const("c")),
      Assign(Ident("$2"), Const("1")),
      Assign(Binary("[]", Ident("$0"), Ident("$2")), Ident("$1")),
      Assign(Ident("$0"), Const("c")),
      Assign(Binary("[]", Ident("$0"), Ident("$0")), Ident("$0")),
      Assign(Ident("a"), Ident("$0")) }

\* What a BUILD_MAP, each of two STORE_MAPs with its operands, and a
\* STORE_FAST of the dictionary are lifted to.
DictRuns ==
    { << Assign(Ident("$0"), Collection("Dict", << >>)) >>,
      << Assign(Ident("$1"), Const("c")),
         Assign(Ident("$2"), Const("1")),
         Assign(Binary("[]", Ident("$0"), Ident("$2")), Ident("$1")) >>,
      << Assign(Ident("$3"), Const("1")),
         Assign(Ident("$4"), Const("c")),
         Assign(Binary("[]", Ident("$0"), Ident("$4")), Ident("$3")) >>,
      << Assign(Ident("a"), Ident("$0")) >> }

\* The Blocks decompile's passes are given.
SimplifyBlocks ==
    { Collection("Block", ns) :
        ns \in SeqsUpTo(InlineStatements, MaxInline)
                 \cup SeqsUpTo(PrintStatements, MaxPrints)
                 \cup SeqsUpTo(DictStatements, MaxStores)
                 \cup { Concat(runs) : runs \in SeqsUpTo(DictRuns, MaxRuns) } }

\* decompile after the lifting, on any of the Blocks above: the generated
\* names are the ones in the Block that begin with '$', the others are local.
InitSimplify ==
    /\ pc = "CombinePrintStatements"
    /\ InitDisassembled
    /\ nodes = <<>>
    /\ jump_targets = {}
    /\ bb_list = <<>>
    /\ cursor = 0
    /\ prev = <<>>
    /\ dominators = <<>>
    /\ changed = FALSE
    /\ todo = {}
    /\ stack = <<>>
    /\ next_id = 0
    /\ new_n = NoNode
    /\ block = <<>>
    /\ global_vars = {}
    /\ \E given \in SimplifyBlocks :
         /\ tree = given
         /\ local_vars = { name \in Range(ident_names(given)) : is_valid(name) }
         /\ generated_vars = { name \in Range(ident_names(given)) : ~is_valid(name) }

SpecSimplify == InitSimplify /\ [][simplify]_vars

\* ------------------------------------------------------------- claims
\* The bytecode loop has ended without raising: the code object decoded.
Decoded == pc = "decode" /\ i >= Last(frames).len_co_code

RECURSIVE SumSizes(_)
SumSizes(ops) == IF ops = <<>> THEN 0 ELSE ops[1].size + SumSizes(Tail(ops))

\* C1: for every code object that decodes, the opcode list tiles the raw
\* bytecode: the first opcode has offset 0, each opcode's offset + size is the
\* next opcode's offset, and the sizes sum to len(co_code).
C1_OpcodesTileBytecode ==
    Decoded =>
        /\ opcodes # <<>> => opcodes[1].offset = 0
        /\ \A k \in 1..(Len(opcodes) - 1) :
             opcodes[k].offset + opcodes[k].size = opcodes[k + 1].offset
        /\ SumSizes(opcodes) = Last(frames).len_co_code

\* C2: disassemble has exactly two outcomes: it returns a Module or it raises
\* DisassemblerException; no decoding failure ends in another exception type.
C2_ModuleOrDisassemblerException ==
    pc = "done" =>
        \/ outcome.returns = "Module"
        \/ outcome.raises = "DisassemblerException"

UnknownMagic == Raised("DisassemblerException", "Unknown magic header number")

\* C3 as stated: a header magic that is the magic of no supported revision,
\* whether below, between or above the known magics, fails with the
\* unknown-magic error.
C3_EveryUnknownMagicFails ==
    (magic >= 0 /\ magic \notin KnownMagics) => outcome = UnknownMagic

\* C3 as amended: the unknown-magic error is raised exactly for a magic above
\* the magic of every supported revision, and then no Module is produced; a
\* magic at or below a supported one is taken for the revision with the
\* smallest magic at or above it and decoding goes on.
C3_MagicAboveEveryRevisionFails ==
    magic >= 0 =>
        /\ outcome = UnknownMagic <=> \A r \in 1..Len(Revisions) : Revisions[r].magic < magic
        /\ outcome # UnknownMagic =>
             /\ magic_to_revision(magic) # 0
             /\ Revisions[magic_to_revision(magic)].magic >= magic
             /\ \A r \in 1..Len(Revisions) :
                  Revisions[r].magic >= magic =>
                      Revisions[magic_to_revision(magic)].magic <= Revisions[r].magic

\* C3 witness: a magic of no revision, above them all, has been refused.
C3_Witness ==
    /\ pc = "done"
    /\ magic >= 0 /\ magic \notin KnownMagics
    /\ outcome = UnknownMagic

\* C4: unmarshal_node accepts every type tag of the tag table
\* (N T F S . 0 i I f g x y l s u t R ( [ < > { c); the unknown-type
\* error is raised only for a tag byte outside that table.
C4_UnknownTypeOnlyOutsideTable ==
    outcome.msg = "Cannot unmarshal unknown type" => last_tag \notin DeclaredTags

\* C5: within one disassemble call the string table is the list of 't'
\* strings in the order they were decoded: a step appends to it exactly when
\* it decodes an interned string, and appends that string ('s' and 'u'
\* strings are never added); an 'R' reference with index k returns entry k
\* when 0 <= k < len(table) and otherwise raises the string-index error, and
\* either way leaves the table as it was.
C5_StringTable ==
    [][ pc # "start" =>
          /\ string_table' =
               IF pc = "node" /\ pc' = "ret" /\ last_tag' = TYPE_INTERNED
               THEN Append(string_table, ret'.s)
               ELSE string_table
          /\ (pc = "node" /\ pc' = "ret" /\ last_tag' = TYPE_STRING_REF) =>
               /\ 0 <= index' /\ index' < Len(string_table)
               /\ ret'.s = string_table[index' + 1]
          /\ (pc = "node" /\ outcome'.msg = "String index is outside string table") =>
               /\ index' < 0 \/ index' >= Len(string_table)
               /\ outcome'.raises = "DisassemblerException"
       ]_vars

\* C5 witness: two interned strings were decoded and a reference to the
\* second one has returned it.
C5_Witness ==
    /\ pc = "ret"
    /\ last_tag = TYPE_STRING_REF
    /\ Len(string_table) = 2
    /\ string_table[1] # string_table[2]
    /\ index = 1
    /\ ret.s = string_table[2]

\* The offset a jump names: its argument, or for a relative jump the
\* argument counted from the end of the jump.
JumpTarget(o) ==
    IF o.op \in relative_jumping_opcodes THEN o.offset + o.size + o.arg.value ELSE o.arg.value

\* The jumps that may fall through.
ConditionalJumps ==
    { "POP_JUMP_IF_TRUE", "POP_JUMP_IF_FALSE", "JUMP_IF_TRUE_OR_POP",
      "JUMP_IF_FALSE_OR_POP", "JUMP_IF_TRUE", "JUMP_IF_FALSE" }

\* The third loop of create_basic_blocks has filled the next field of block j.
Wired(j) ==
    /\ j \in DOMAIN bb_list
    /\ j <= cursor
    /\ \/ pc = "next"
       \/ pc = "done" /\ (outcome.returns = "bb_list" \/ outcome.raises = "KeyError")

\* C6: every BasicBlock of create_basic_blocks starts at the first opcode's
\* offset (0), at the target of a jump of the list, or at offset + size of a
\* jumping or exiting opcode of the list.
C6_BlockStarts ==
    \A j \in DOMAIN bb_list :
        LET s == bb_list[j].start
        IN  \/ s = nodes[1].offset /\ s = 0
            \/ \E k \in DOMAIN nodes :
                 nodes[k].op \in jumping_opcodes /\ s = JumpTarget(nodes[k])
            \/ \E k \in DOMAIN nodes :
                 /\ nodes[k].op \in jumping_opcodes \cup exiting_opcodes
                 /\ s = nodes[k].offset + nodes[k].size

\* C6 witness: three blocks were built, one of them at an offset that is
\* only the target of a jump.
C6_Witness ==
    /\ pc = "next"
    /\ Len(bb_list) = 3
    /\ \E j \in DOMAIN bb_list :
         /\ bb_list[j].start # 0
         /\ \E k \in DOMAIN nodes :
              nodes[k].op \in jumping_opcodes /\ bb_list[j].start = JumpTarget(nodes[k])
         /\ \A k \in DOMAIN nodes :
              nodes[k].op \in jumping_opcodes \cup exiting_opcodes
                  => bb_list[j].start # nodes[k].offset + nodes[k].size

\* C7: a block whose last instruction is a conditional jump has exactly two
\* successors, first the block at the jump target and second the block at
\* offset + size; a block whose last instruction exits has none.
C7_ConditionalAndExitSuccessors ==
    \A j \in DOMAIN bb_list :
        Wired(j) =>
            LET bb == bb_list[j]
                last == bb.nodes[Len(bb.nodes)]
            IN  /\ last.op \in ConditionalJumps =>
                     /\ Len(bb.next) = 2
                     /\ bb_list[bb.next[1]].start = JumpTarget(last)
                     /\ bb_list[bb.next[2]].start = last.offset + last.size
                /\ last.op \in exiting_opcodes => bb.next = <<>>

\* C7 witness: create_basic_blocks returned a block that ends in a
\* conditional jump to one block and falls through to another, and a block
\* that exits.
C7_Witness ==
    /\ pc = "done" /\ outcome.returns = "bb_list"
    /\ \E j \in DOMAIN bb_list :
         /\ bb_list[j].nodes[Len(bb_list[j].nodes)].op \in ConditionalJumps
         /\ Len(bb_list[j].next) = 2
         /\ bb_list[j].next[1] # bb_list[j].next[2]
    /\ \E j \in DOMAIN bb_list :
         bb_list[j].nodes[Len(bb_list[j].nodes)].op \in exiting_opcodes

\* C8: the number of successors follows from the last instruction: 0 if and
\* only if it exits, 2 if and only if it is a conditional jump, and 1
\* otherwise; a block ending in JUMP_ABSOLUTE or JUMP_FORWARD has the block
\* at the jump target as its only successor.
C8_SuccessorCount ==
    \A j \in DOMAIN bb_list :
        Wired(j) =>
            LET bb == bb_list[j]
                last == bb.nodes[Len(bb.nodes)]
            IN  /\ Len(bb.next) = 0 <=> last.op \in exiting_opcodes
                /\ Len(bb.next) = 2 <=> last.op \in ConditionalJumps
                /\ last.op \notin exiting_opcodes \cup ConditionalJumps => Len(bb.next) = 1
                /\ last.op \in { "JUMP_ABSOLUTE", "JUMP_FORWARD" } =>
                     /\ Len(bb.next) = 1
                     /\ bb_list[bb.next[1]].start = JumpTarget(last)

\* The blocks a path along next fields leads to from the blocks in S.
RECURSIVE ReachableFrom(_)
ReachableFrom(S) ==
    LET T == S \cup UNION { Range(bb_list[b].next) : b \in S }
    IN  IF T = S THEN S ELSE ReachableFrom(T)

\* Following dominator fields from b comes to the entry within n links.
RECURSIVE LeadsToEntry(_, _)
LeadsToEntry(b, n) ==
    IF b = start THEN TRUE
    ELSE IF n = 0 \/ bb_list[b].dominator = 0 THEN FALSE
    ELSE LeadsToEntry(bb_list[b].dominator, n - 1)

\* compute_dominators has set the dominator fields.
Dominated == pc = "done" /\ outcome.returns = "Block" /\ bb_list # <<>>

\* C9: after compute_dominators every block reachable from the entry, other
\* than the entry, has a dominator field that is not None and is another
\* reachable block; the entry's is None; and the dominator links lead from
\* every reachable block to the entry without a cycle.
C9_DominatorTree ==
    Dominated =>
        /\ bb_list[start].dominator = 0
        /\ \A b \in ReachableFrom({ start }) \ { start } :
             /\ bb_list[b].dominator # 0
             /\ bb_list[b].dominator # b
             /\ bb_list[b].dominator \in ReachableFrom({ start })
        /\ \A b \in ReachableFrom({ start }) : LeadsToEntry(b, Len(bb_list))

\* C9 witness: dominators were computed for three reachable blocks of which
\* the second and the third lie on a cycle.
C9_Witness ==
    /\ Dominated
    /\ ReachableFrom({ start }) = { 1, 2, 3 }
    /\ 2 \in Range(bb_list[3].next)
    /\ bb_list[2].dominator = 1
    /\ bb_list[3].dominator = 2

\* C10: the symbolic operand stack is empty immediately after each
\* RETURN_VALUE is lifted.
C10_StackEmptyAfterReturn ==
    new_n.node = "Return" => stack = <<>>

\* C11: the generated names never collide with program identifiers:
\* generated_vars is disjoint from global_vars and from local_vars after any
\* sequence of lifted opcodes, and every generated name is '$' followed by an
\* integer below next_id.
C11_GeneratedNamesDisjoint ==
    /\ generated_vars \cap (global_vars \cup local_vars) = {}
    /\ \A name \in generated_vars : \E id \in 0..(next_id - 1) : name = Dollar(id)

\* The step lifts BUILD_LIST k or BUILD_TUPLE k without raising.
BuildsCollection(k) ==
    /\ Visiting
    /\ build_collection("List", k) \/ build_collection("Tuple", k)

\* C20: lifting BUILD_LIST k or BUILD_TUPLE k on a stack of depth d >= k,
\* k = 0 included, leaves depth d - k + 1: the d - k entries below the top k
\* are unchanged, one new name is pushed, and the literal holds the top k
\* names in push order.
C20_BuildCollectionPopsK ==
    [][ \A k \in LiftCounts :
          BuildsCollection(k) /\ Len(stack) >= k =>
              LET d == Len(stack)
              IN  /\ Len(stack') = d - k + 1
                  /\ SubSeq(stack', 1, d - k) = SubSeq(stack, 1, d - k)
                  /\ stack'[d - k + 1] \notin generated_vars
                  /\ new_n'.right.nodes = Idents(SubSeq(stack, d - k + 1, d)) ]_vars

\* The offset at which the last emitted Opcode ends; 0 when there is none.
EndOfEmitted == IF opcodes = <<>> THEN 0 ELSE Last(opcodes).offset + Last(opcodes).size

\* The 16-bit little-endian argument of the instruction at offset o of the
\* bytes decoded so far.
ArgAt(o) == co_code[o + 2] + 256 * co_code[o + 3]

\* Opcode k was emitted directly after exactly one EXTENDED_ARG.
AfterOneExtendedArg(k) ==
    LET before == IF k = 1 THEN 0 ELSE opcodes[k - 1].offset + opcodes[k - 1].size
    IN  opcodes[k].offset = before + 3

\* C17: no decoded Opcode is named EXTENDED_ARG; an argument-carrying opcode
\* that directly follows one EXTENDED_ARG with argument h, and has its own
\* argument l, is emitted with the raw argument h * 65536 + l; and the
\* accumulator is 0 whenever decoding begins at an opcode that no
\* EXTENDED_ARG precedes.
C17_ExtendedArg ==
    pc = "decode" =>
        /\ \A k \in DOMAIN opcodes : opcodes[k].opcode # "EXTENDED_ARG"
        /\ \A k \in DOMAIN opcodes :
             AfterOneExtendedArg(k) /\ opcodes[k].argument.from # None =>
                 opcodes[k].argument.value =
                     ArgAt(opcodes[k].offset - 3) * 65536 + ArgAt(opcodes[k].offset)
        /\ i = EndOfEmitted => argument = 0

\* C17 witness: an opcode was emitted after an EXTENDED_ARG whose argument
\* is not 0, with an argument of its own that is not 0.
C17_Witness ==
    /\ pc = "decode"
    /\ Len(opcodes) = 1
    /\ i = EndOfEmitted
    /\ argument = 0
    /\ AfterOneExtendedArg(1)
    /\ opcodes[1].argument.from = "raw"
    /\ opcodes[1].argument.value > 65536
    /\ ArgAt(0) > 0
    /\ ArgAt(3) > 0

\* The blocks a path from the entry leads to when no path may go through d.
RECURSIVE ReachableAvoiding(_, _)
ReachableAvoiding(S, d) ==
    LET T == S \cup (UNION { Range(bb_list[b].next) : b \in S } \ { d })
    IN  IF T = S THEN S ELSE ReachableAvoiding(T, d)

\* d dominates b: every path from the entry to b passes through d.
Dominates(d, b) ==
    \/ d = b
    \/ d = start
    \/ b \notin ReachableAvoiding({ start }, d)

\* The strict dominators of b under the path definition.
StrictDominators(b) == { d \in DOMAIN bb_list \ { b } : Dominates(d, b) }

\* C18: for every block B reachable from the entry (the entry has no strict
\* dominator), the dominator field set by compute_dominators is a strict
\* dominator of B under the path definition, and every other strict
\* dominator of B dominates it.
C18_ImmediateDominatorByPaths ==
    Dominated =>
        \A b \in ReachableFrom({ start }) \ { start } :
            LET d == bb_list[b].dominator
            IN  /\ d \in StrictDominators(b)
                /\ \A e \in StrictDominators(b) \ { d } : Dominates(e, d)

\* C18 witness: dominators were computed for a block that two paths from
\* the entry lead to, one of them through a block that does not dominate it.
C18_Witness ==
    /\ Dominated
    /\ Len(bb_list) = 3
    /\ Range(bb_list[1].next) = { 2, 3 }
    /\ 3 \in Range(bb_list[2].next)
    /\ bb_list[3].dominator = 1
    /\ StrictDominators(3) = { 1 }

\* One sweep of the refinement over every pending block at once, from doms.
Sweep(doms) ==
    [ b \in DOMAIN bb_list |->
        IF b = start THEN doms[b]
        ELSE { b } \cup { x \in DOMAIN bb_list :
                            \A p \in DOMAIN bb_list :
                                b \in Range(bb_list[p].next) => x \in doms[p] } ]

\* The sets the sweeps come to from the first dominators.
RECURSIVE Converged(_)
Converged(doms) == IF Sweep(doms) = doms THEN doms ELSE Converged(Sweep(doms))

\* The loop "while changed" has ended and the dominators are still there.
LoopEnded == pc = "while" /\ ~changed

\* C19: the refinement loop of compute_dominators terminates on every block
\* graph, and the dominator sets it ends with are the same whatever the
\* order in which the pending blocks are visited in each sweep.
C19_RefinementTerminates ==
    /\ <>(pc = "done")
    /\ [](LoopEnded =>
            dominators = Converged([ b \in DOMAIN bb_list |->
                                       IF b = start THEN { start } ELSE DOMAIN bb_list ]))

\* C19 witness: the loop has ended on a graph with a cycle through the
\* entry and a block that no path from the entry leads to, after a sweep
\* over two pending blocks.
C19_Witness ==
    /\ LoopEnded
    /\ Len(bb_list) = 3
    /\ 2 \in Range(bb_list[1].next)
    /\ 1 \in Range(bb_list[2].next)
    /\ 2 \in Range(bb_list[3].next)
    /\ ReachableFrom({ start }) = { 1, 2 }
    /\ dominators[2] = { 1, 2 }


\* The candidates an InlineVariables step has inlined: the names the tree
\* held before the step and no longer holds after it.
Inlined == Range(ident_names(tree)) \ Range(ident_names(tree'))

\* decompile is at one of its two InlineVariables lines.
AtInlineVariables == pc \in { "InlineVariables", "InlineVariables again" }

\* C12: InlineVariables preserves evaluation order: the sequence of constant
\* leaves and of identifier leaves other than the inlined variables, an
\* Assign's right side before its left side, is identical before and after
\* the pass.
C12_InlinePreservesOrder ==
    [][AtInlineVariables =>
         get_order(tree.nodes, Inlined) = get_order(tree'.nodes, Inlined)]_vars

\* decompile has just run CombinePrintStatements, the first or second time.
AfterCombinePrintStatements == pc \in { "InlineVariables", "MakeIdentifiersValid" }

\* Some Block of n holds a PrintNoNewline immediately followed by a Print or
\* a PrintNoNewline.
RECURSIVE AdjacentPrints(_)
AdjacentPrints(n) ==
    \/ /\ n.node = "Block"
       /\ \E k \in 1..(Len(n.nodes) - 1) :
            /\ n.nodes[k].node = "PrintNoNewline"
            /\ n.nodes[k + 1].node \in { "Print", "PrintNoNewline" }
    \/ \E k \in DOMAIN children(n) : AdjacentPrints(children(n)[k])

\* C13: CombinePrintStatements is idempotent: applied to its own output it
\* returns an equal tree, and that output holds no PrintNoNewline immediately
\* followed by a Print or PrintNoNewline.
C13_CombinePrintsIdempotent ==
    AfterCombinePrintStatements =>
        /\ CombinePrintStatements(tree) = tree
        /\ ~AdjacentPrints(tree)

\* C13 witness: the pass has folded two PrintNoNewline statements and a Print
\* into one Print of two expressions.
C13_Witness ==
    /\ pc = "InlineVariables"
    /\ \E k \in DOMAIN tree.nodes :
         tree.nodes[k].node = "Print" /\ Len(tree.nodes[k].nodes) = 2

\* Context.decompile has returned its tree.
DecompileReturned == pc = "done" /\ tree # NoNode

\* C14: every Ident of the tree Context.decompile returns, the identifiers
\* of the prepended Global statement included, has a name that is a valid
\* identifier.
C14_IdentifiersValid ==
    DecompileReturned => \A k \in DOMAIN ident_names(tree) : is_valid(ident_names(tree)[k])

\* Some Block of n holds what a BUILD_MAP and a STORE_MAP are lifted to: the
\* assignment of a Dict to a generated variable, directly followed by
\* "$v = x; $k = y; $d[$k] = $v" with $v and $k generated variables that
\* root reads once and writes once.
RECURSIVE StoreTriple(_, _)
StoreTriple(n, root) ==
    \/ /\ n.node = "Block"
       /\ \E k \in 1..(Len(n.nodes) - 3) :
            LET d == n.nodes[k]
                value == n.nodes[k + 1]
                key == n.nodes[k + 2]
                once == one_read_one_write(root, generated_vars)
            IN  /\ is_write(d) /\ d.left.name \in generated_vars /\ d.right.node = "Dict"
                /\ is_write(value) /\ value.left.name \in once
                /\ is_write(key) /\ key.left.name \in once
                /\ n.nodes[k + 3].node = "Assign"
                /\ n.nodes[k + 3].left = Binary("[]", d.left, key.left)
                /\ n.nodes[k + 3].right = value.left
    \/ \E k \in DOMAIN children(n) : StoreTriple(children(n)[k], root)

\* Nothing in decompile's tree matches a simplification pass: no variable
\* is eligible for inlining, there is no BUILD_MAP/STORE_MAP triple and no
\* adjacent print pair.
NothingMatches ==
    /\ tree # NoNode
    /\ one_read_one_write(tree, local_vars \cup generated_vars) = {}
    /\ ~StoreTriple(tree, tree)
    /\ ~AdjacentPrints(tree)

\* decompile is at one of the lines that run InlineVariables,
\* ReconstructDictLiterals or CombinePrintStatements.
AtSimplification ==
    pc \in { "CombinePrintStatements", "InlineVariables", "ReconstructDictLiterals",
             "InlineVariables again", "CombinePrintStatements again" }

\* Some node of n is of the classes given and satisfies nothing more.
RECURSIVE Holds(_, _)
Holds(n, classes) ==
    n.node \in classes \/ \E k \in DOMAIN children(n) : Holds(children(n)[k], classes)

\* Some If node of n has no false branch.
RECURSIVE HoldsIfWithoutFalse(_)
HoldsIfWithoutFalse(n) ==
    \/ n.node = "If" /\ n.false = NoNode
    \/ \E k \in DOMAIN children(n) : HoldsIfWithoutFalse(children(n)[k])

\* C15: the simplification passes never fail and change nothing where
\* nothing matches: on a tree with no inline-eligible variable, no
\* BUILD_MAP/STORE_MAP triple and no adjacent print pair, residual Opcode
\* nodes and If nodes without a false branch included, each of
\* InlineVariables, ReconstructDictLiterals and CombinePrintStatements
\* returns, raising nothing, a tree equal to the one it was given.
C15_NothingMatchesNothingChanges ==
    [][AtSimplification /\ NothingMatches =>
         tree' = tree /\ outcome'.raises = "None"]_vars

\* C15 witness: the three passes have run over a tree in which nothing
\* matches and which holds a residual Opcode and an If without a false
\* branch.
C15_Witness ==
    /\ pc = "MakeIdentifiersValid"
    /\ NothingMatches
    /\ Holds(tree, { "Opcode" })
    /\ HoldsIfWithoutFalse(tree)

\* The pass decompile is at when pc is as given: its two InlineVariables
\* lines run the same pass, and so do its two CombinePrintStatements lines.
PassAt(at) ==
    CASE at \in { "InlineVariables", "InlineVariables again" } -> "InlineVariables"
      [] at \in { "CombinePrintStatements", "CombinePrintStatements again" } ->
             "CombinePrintStatements"
      [] OTHER -> at

\* The place of a pass in the order the passes are listed in.
ListedRank(pass) ==
    CASE pass = "lift" -> 0
      [] pass = "InlineVariables" -> 1
      [] pass = "ReconstructDictLiterals" -> 2
      [] pass = "CombinePrintStatements" -> 3
      [] pass = "MakeIdentifiersValid" -> 4
      [] pass = "Global" -> 5
      [] OTHER -> 6

\* C16 as stated: the passes run in the listed order, lifting, InlineVariables,
\* ReconstructDictLiterals, CombinePrintStatements, MakeIdentifiersValid,
\* Global statement; no pass runs before a pass listed ahead of it.
C16_ListedOrder ==
    [][ListedRank(PassAt(pc')) >= ListedRank(PassAt(pc))]_vars

\* The lines of decompile in the order it runs them.
DecompileOrder ==
    << "lift", "CombinePrintStatements", "InlineVariables", "ReconstructDictLiterals",
       "InlineVariables again", "CombinePrintStatements again", "MakeIdentifiersValid",
       "Global", "done" >>

\* The tree begins with a Global statement.
BeginsWithGlobal(n) == n.nodes # << >> /\ Head(n.nodes).node = "Global"

\* C16 amended: decompile runs the lifting, then CombinePrintStatements,
\* InlineVariables, ReconstructDictLiterals, InlineVariables and
\* CombinePrintStatements once more, then MakeIdentifiersValid, each on the
\* tree the one before returned, and last prepends the Global statement if
\* and only if global_vars is non-empty; it leaves this order only when the
\* lifting raises.
C16_DecompileOrder ==
    [][pc' # pc =>
         \/ pc = "lift" /\ pc' = "done" /\ outcome'.raises # "None"
         \/ /\ \E k \in 1..(Len(DecompileOrder) - 1) :
                 pc = DecompileOrder[k] /\ pc' = DecompileOrder[k + 1]
            /\ PassAt(pc) = "CombinePrintStatements" => tree' = CombinePrintStatements(tree)
            /\ PassAt(pc) = "InlineVariables" =>
                 tree' = InlineVariables(tree, one_read_one_write(tree, local_vars
                                                                      \cup generated_vars))
            /\ pc = "ReconstructDictLiterals" =>
                 tree' = ReconstructDictLiterals(tree, generated_vars,
                                                 one_read_one_write(tree, generated_vars))
            /\ pc = "MakeIdentifiersValid" =>
                 \A k \in DOMAIN ident_names(tree') : is_valid(ident_names(tree')[k])
            /\ pc = "Global" =>
                 /\ BeginsWithGlobal(tree') <=> global_vars # {}
                 /\ global_vars = {} => tree' = tree
                 /\ global_vars # {} =>
                      /\ Tail(tree'.nodes) = tree.nodes
                      /\ Range(ident_names(Head(tree'.nodes))) = global_vars]_vars

\* C16 witness: every pass has run on a Block that read a global variable
\* and printed, and the tree returned begins with the Global statement.
C16_Witness ==
    /\ pc = "done"
    /\ tree # NoNode
    /\ BeginsWithGlobal(tree)
    /\ Holds(tree, { "Print" })

\* The step lifts DUP_TOPX k without raising.
DupsTopx(k) ==
    /\ Visiting
    /\ Visited(stack \o LastK(stack, k), NoNode, global_vars, local_vars,
               generated_vars, next_id)

\* The step lifts an opcode that needs n operands.
NeedsOperands(n) ==
    \/ /\ n = 1
       /\ \/ LiftStoreName \/ LiftLoadAttr \/ LiftPopTop \/ LiftDupTop
          \/ LiftPrintItem \/ LiftReturnValue \/ LiftUnpackSequence
    \/ n = 2 /\ (LiftBinary \/ LiftCompare \/ LiftRotTwo)
    \/ n = 3 /\ (LiftRotThree \/ LiftStoreMap)
    \/ DupsTopx(n)
    \/ BuildsCollection(n)

\* C21: stack underflow is always an error: when a lifted opcode needs n
\* operands and the symbolic stack holds fewer than n entries, the lifting
\* raises and no node is emitted for that opcode.
C21_UnderflowIsAnError ==
    [][ \A n \in 1..MaxLiftArg :
          NeedsOperands(n) /\ Len(stack) < n =>
              outcome'.raises # "None" /\ block' = block ]_vars

\* The step lifts the BINARY_ or INPLACE_ opcode o without raising.
LiftsBinary(o) ==
    /\ Visiting
    /\ Len(stack) >= 2
    /\ as_binary(o) \in DOMAIN opcode_to_binary
    /\ Assigned(ButLastK(stack, 2),
                Binary(opcode_to_binary[as_binary(o)], Ident(stack[Len(stack) - 1]),
                       Ident(stack[Len(stack)])),
                global_vars, local_vars)

\* The operator each opcode lists are drawn from denotes.
Denoted(o) ==
    CASE o \in { "BINARY_ADD", "INPLACE_ADD" } -> "+"
      [] o = "BINARY_LSHIFT" -> "<<"
      [] o \in { "BINARY_RSHIFT", "INPLACE_RSHIFT" } -> ">>"

\* C22: each BINARY_x / INPLACE_x opcode is lifted to an assignment of a
\* Binary node whose operator is the one the opcode denotes, BINARY_LSHIFT
\* giving '<<' and BINARY_RSHIFT '>>', with the operand pushed first as the
\* left child.
C22_BinaryOperatorDenoted ==
    [][ \A o \in BinaryOps :
          LiftsBinary(o) =>
              /\ new_n'.right.op = Denoted(o)
              /\ new_n'.right.left = Ident(stack[Len(stack) - 1])
              /\ new_n'.right.right = Ident(stack[Len(stack)]) ]_vars

\* The names on the left side of the Assign statements of n whose left side
\* is an Ident, n itself included, one entry an Assign.
RECURSIVE AssignedNames(_)
AssignedNames(n) ==
    IF is_write(n) THEN << n.left.name >> \o AssignedNames(n.right)
    ELSE Concat([ k \in DOMAIN children(n) |-> AssignedNames(children(n)[k]) ])

\* The names of all other Ident nodes of n, one entry an occurrence.
RECURSIVE OtherIdents(_)
OtherIdents(n) ==
    IF n.node = "Ident" THEN << n.name >>
    ELSE IF is_write(n) THEN OtherIdents(n.right)
    ELSE Concat([ k \in DOMAIN children(n) |-> OtherIdents(children(n)[k]) ])

\* FindUses applied to n counts as the claim says.
CountsUses(n) ==
    \A x \in Range(ident_names(n)) :
        /\ count(x, writes(n)) = count(x, AssignedNames(n))
        /\ count(x, reads(n)) = count(x, OtherIdents(n))

\* C23: FindUses counts a write of x for every Assign whose left side is
\* Ident(x) and a read of x for every other Ident(x), whether it is applied
\* to decompile's Block or directly to one of its statements, as
\* InlineVariables applies it.
C23_FindUsesCounts ==
    tree # NoNode =>
        /\ CountsUses(tree)
        /\ \A k \in DOMAIN tree.nodes : CountsUses(tree.nodes[k])

\* The candidates InlineVariables picks in decompile's tree.
InlineCandidates == one_read_one_write(tree, local_vars \cup generated_vars)

\* The single parallel assignment of the statements given.
Fused(statements) ==
    << Assign(Collection("Tuple", [ k \in DOMAIN statements |-> statements[k].left ]),
              Collection("Tuple", [ k \in DOMAIN statements |-> statements[k].right ])) >>

\* C24 as stated: when InlineVariables accepts a substitution and every
\* resulting statement is an Assign to an Ident, the statements are replaced
\* by a single parallel Assign, for any number of resulting statements.
C24_ParallelForAnyNumber ==
    AtInlineVariables =>
        \A first \in DOMAIN tree.nodes :
            LET try == attempt(tree.nodes, first, InlineCandidates)
            IN  try.accepted /\ (\A k \in DOMAIN try.inlined : is_write(try.inlined[k]))
                    => try.results = Fused(try.inlined)

\* C24 amended: when InlineVariables accepts a substitution that results in
\* two or more statements, all of them an Assign to an Ident, they are
\* replaced by a single parallel Assign(Tuple(left sides), Tuple(right
\* sides)) in statement order; a single resulting statement, and statements
\* that are not all such assignments, are kept as the replacement left them.
C24_ParallelForTwoOrMore ==
    AtInlineVariables =>
        \A first \in DOMAIN tree.nodes :
            LET try == attempt(tree.nodes, first, InlineCandidates)
            IN  try.accepted =>
                    IF Len(try.inlined) >= 2
                          /\ \A k \in DOMAIN try.inlined : is_write(try.inlined[k])
                    THEN try.results = Fused(try.inlined)
                    ELSE try.results = try.inlined

\* C24 witness: InlineVariables has returned a parallel assignment of two
\* targets.
C24_Witness ==
    /\ pc = "ReconstructDictLiterals"
    /\ \E k \in DOMAIN tree.nodes :
         /\ tree.nodes[k].node = "Assign"
         /\ tree.nodes[k].left.node = "Tuple"
         /\ Len(tree.nodes[k].left.nodes) = 2
         /\ Len(tree.nodes[k].right.nodes) = 2

\* The Block nodes of n, n included.
RECURSIVE BlocksOf(_)
BlocksOf(n) ==
    (IF n.node = "Block" THEN { n } ELSE {})
        \cup UNION { BlocksOf(children(n)[k]) : k \in DOMAIN children(n) }

\* The statements each full scan of visit_Block is given, from ns on: a new
\* scan is started only when the one before accepted a substitution.
RECURSIVE ScanInputs(_, _)
ScanInputs(ns, inline_candidates) ==
    LET pass == inline_pass(ns, 1, inline_candidates)
    IN  << ns >> \o (IF pass.is_changed THEN ScanInputs(pass.nodes, inline_candidates)
                     ELSE << >>)

\* Every substitution accepted in ns puts fewer statements in the place of
\* the ones it takes, and takes at least one.
AcceptedReduces(ns, inline_candidates) ==
    \A first \in DOMAIN ns :
        LET try == attempt(ns, first, inline_candidates)
        IN  try.accepted => try.j > first /\ Len(try.results) < try.j - first

\* C25: InlineVariables.visit_Block terminates on every Block: every
\* accepted substitution strictly reduces the number of statements, so each
\* scan that changes something hands a shorter Block to the next, a Block of
\* n statements is scanned at most n + 1 times, and the last scan changes
\* nothing.
C25_InlineTerminates ==
    AtInlineVariables =>
        \A b \in BlocksOf(tree) :
            /\ AcceptedReduces(b.nodes, InlineCandidates)
            /\ LET scans == ScanInputs(b.nodes, InlineCandidates)
               IN  /\ \A k \in DOMAIN scans : AcceptedReduces(scans[k], InlineCandidates)
                   /\ \A k \in 1..(Len(scans) - 1) : Len(scans[k + 1]) < Len(scans[k])
                   /\ Len(scans) <= Len(b.nodes) + 1
                   /\ ~inline_pass(Last(scans), 1, InlineCandidates).is_changed
                   /\ inline_block(b.nodes, InlineCandidates)
                          = inline_pass(Last(scans), 1, InlineCandidates).nodes

\* C25 witness: InlineVariables is given a Block on which two scans in a row
\* accept a substitution before a third changes nothing.
C25_Witness ==
    /\ AtInlineVariables
    /\ Len(ScanInputs(tree.nodes, InlineCandidates)) >= 3

\* value; key; store are "$v = x; $kk = y; $k[$kk] = $v" for the dictionary
\* variable d, $v and $kk being among once, and item is DictItem(y, x).
FoldsTo(d, value, key, store, item, once) ==
    /\ is_write(value) /\ value.left.name \in once
    /\ is_write(key) /\ key.left.name \in once
    /\ store = Assign(Binary("[]", d, key.left), value.left)
    /\ item = DictItem(key.right, value.right)

\* The statements new are the statements old in their order, but that some
\* assignments of a Dict to a generated variable have lost the triples that
\* directly follow them and gained an item for each, in the triples' order.
RECURSIVE FoldedFrom(_, _, _)
FoldedFrom(old, new, once) ==
    IF old = << >> THEN new = << >>
    ELSE /\ new # << >>
         /\ \/ Head(new) = Head(old) /\ FoldedFrom(Tail(old), Tail(new), once)
            \/ /\ is_write(Head(old)) /\ Head(old).left.name \in generated_vars
               /\ Head(old).right.node = "Dict"
               /\ is_write(Head(new)) /\ Head(new).left = Head(old).left
               /\ Head(new).right.node = "Dict"
               /\ LET had == Len(Head(old).right.nodes)
                      more == Len(Head(new).right.nodes) - had
                  IN  /\ more >= 1
                      /\ Len(old) >= 1 + 3 * more
                      /\ SubSeq(Head(new).right.nodes, 1, had) = Head(old).right.nodes
                      /\ \A t \in 1..more :
                           FoldsTo(Head(old).left, old[3 * t - 1], old[3 * t], old[3 * t + 1],
                                   Head(new).right.nodes[had + t], once)
                      /\ FoldedFrom(SubSeq(old, 2 + 3 * more, Len(old)), Tail(new), once)

\* C26: ReconstructDictLiterals folds a triple "$v = value; $kk = key;
\* $k[$kk] = $v" that directly follows the assignment of a Dict to the
\* generated name $k, or a folded triple of the same dict, only when $v and
\* $kk each have exactly one read and one write in the whole tree; a fold
\* removes those three statements and appends DictItem(key, value) to the
\* Dict, so the items are in statement order, and every other statement is
\* kept in its position.
C26_FoldsTriples ==
    [][pc = "ReconstructDictLiterals" =>
         /\ tree'.node = "Block"
         /\ FoldedFrom(tree.nodes, tree'.nodes, one_read_one_write(tree, generated_vars))]_vars

\* C26 witness: ReconstructDictLiterals has folded two triples in a row into
\* one Dict and kept the statement after them.
C26_Witness ==
    /\ pc = "InlineVariables again"
    /\ Len(tree.nodes) >= 2
    /\ is_write(tree.nodes[1]) /\ tree.nodes[1].right.node = "Dict"
    /\ Len(tree.nodes[1].right.nodes) = 2
    /\ tree.nodes[1].right.nodes[1] # tree.nodes[1].right.nodes[2]

\* The place of name among the names gen_name yields, 0 if it has none up to
\* the place last.
NamePlace(name, last) ==
    IF \E k \in 1..last : gen_name(k) = name
    THEN CHOOSE k \in 1..last : gen_name(k) = name
    ELSE 0

\* The place in names at which name occurs first.
FirstAt(name, names) == CHOOSE p \in DOMAIN names : names[p] = name /\ \A q \in 1..(p - 1) : names[q] # name

\* The Ident names after are the names before renamed consistently and
\* without clashes: a valid name is kept; an invalid name gets a name of
\* a, b, ..., z, var1, ... that is not in taken and is no valid name of
\* before; equal invalid names get equal names and different ones get
\* different names, drawn in the order the invalid names first occur.
RenamedWithoutClashes(before, after, taken) ==
    LET last == 26 + Len(before) + Cardinality(taken)
        invalid == { p \in DOMAIN before : ~is_valid(before[p]) }
    IN  /\ Len(after) = Len(before)
        /\ \A p \in DOMAIN before \ invalid : after[p] = before[p]
        /\ \A p \in invalid :
             /\ NamePlace(after[p], last) > 0
             /\ after[p] \notin taken
             /\ after[p] \notin { before[q] : q \in DOMAIN before \ invalid }
        /\ \A p, q \in invalid :
             /\ before[p] = before[q] <=> after[p] = after[q]
             /\ FirstAt(before[p], before) < FirstAt(before[q], before)
                  => NamePlace(after[p], last) < NamePlace(after[q], last)

\* C27: MakeIdentifiersValid renames consistently and without clashes:
\* within one run every occurrence of the same invalid name gets the same
\* replacement, two different invalid names get different replacements,
\* replacements are drawn in order from a, b, ..., z, var1, var2, ..., and no
\* replacement equals a name that is in the Context (global, local or
\* generated variables) or that occurs as a valid identifier in the tree.
C27_RenamesWithoutClashes ==
    [][pc = "MakeIdentifiersValid" =>
         RenamedWithoutClashes(ident_names(tree), ident_names(tree'),
                               global_vars \cup local_vars \cup generated_vars)]_vars

\* C27 witness: MakeIdentifiersValid has renamed two different invalid names
\* of a tree that reads the variable a, which is in the Context: the
\* replacements are b and c.
C27_Witness ==
    /\ pc = "Global"
    /\ "a" \in global_vars \cup local_vars
    /\ { "a", "b", "c" } \subseteq Range(ident_names(tree))
    /\ { "b", "c" } \subseteq generated_vars

\* The blocks are a partition of the opcodes q that keeps their order: no
\* block is empty, a block starts at the offset of its first opcode, and
\* the blocks' opcodes one block after the other are q.
PartitionOf(blocks, q) ==
    /\ \A j \in DOMAIN blocks :
         blocks[j].nodes # <<>> /\ blocks[j].start = blocks[j].nodes[1].offset
    /\ Concat([ j \in DOMAIN blocks |-> blocks[j].nodes ]) = q
    /\ \A p, r \in DOMAIN q : p # r => q[p] # q[r]

\* C28: ComputeBasicBlocks partitions the opcode list: every BasicBlock is
\* non-empty, every opcode belongs to exactly one block, blocks and the
\* opcodes inside them keep the original order, and therefore
\* DecompileControlStructures, which flattens the blocks again, returns a
\* Block whose opcode sequence equals the one ComputeBasicBlocks was given.
C28_BlocksPartitionOpcodes ==
    /\ pc = "bb_list" => PartitionOf(bb_list, SubSeq(nodes, 1, cursor))
    /\ pc \in { "next", "done", "flattened" } => PartitionOf(bb_list, nodes)
    /\ pc = "flattened" => tree = Collection("Block", nodes)

\* C28 witness: DecompileControlStructures has returned the Block of a list
\* of opcodes that ComputeBasicBlocks split into two blocks, one of them of
\* two opcodes.
C28_Witness ==
    /\ pc = "flattened"
    /\ Len(bb_list) = 2
    /\ \E j \in DOMAIN bb_list : Len(bb_list[j].nodes) = 2
    /\ tree.nodes = nodes

\* C29: successor wiring in create_basic_blocks completes without error for
\* every non-empty opcode list with contiguous offsets: for each block
\* ending in a jump, both the jump target and offset + size of the jump are
\* looked up successfully as the start of an existing block, including when
\* the jump is the last instruction of the code or its target is not the
\* offset of any instruction.
C29_WiringCompletes ==
    nodes # <<>> /\ pc \in { "next", "done" } =>
        /\ outcome.raises = None
        /\ \A j \in DOMAIN bb_list :
             LET last == bb_list[j].nodes[Len(bb_list[j].nodes)]
             IN  last.op \in jumping_opcodes =>
                     \A k \in DOMAIN get_targets(last) :
                         \E q \in DOMAIN bb_list : bb_list[q].start = get_targets(last)[k]

\* The statements ns assign name on every path through them: one of them
\* assigns it, alone or in a tuple, or is an If with two branches that both do.
RECURSIVE AssignedOnEveryPath(_, _)
AssignedOnEveryPath(ns, name) ==
    \E k \in DOMAIN ns :
        \/ ns[k].node = "Assign" /\ ns[k].left.node = "Ident" /\ ns[k].left.name = name
        \/ /\ ns[k].node = "Assign" /\ ns[k].left.node = "Tuple"
           /\ \E q \in DOMAIN ns[k].left.nodes : ns[k].left.nodes[q] = Ident(name)
        \/ /\ ns[k].node = "If" /\ ns[k].false # NoNode
           /\ AssignedOnEveryPath(ns[k].true.nodes, name)
           /\ AssignedOnEveryPath(ns[k].false.nodes, name)

\* C30: every name on the symbolic operand stack is defined before it can be
\* used: at every point of lifting, including directly after an If node
\* whose two branches were merged into fresh names, each name on the stack
\* is the target of an assignment emitted earlier on every path that
\* reaches that point.
C30_StackNamesDefined ==
    pc = "lift" => \A k \in DOMAIN stack : AssignedOnEveryPath(block, stack[k])
=============================================================================
